---- MODULE Spec2Model ----
(***************************************************************************)
(* Verification model of the Akita Meshtastic Delivery Navigator dispatch  *)
(* core: the SQLite state store (akita_navigator/database.py), the         *)
(* reliable messenger (akita_navigator/meshtastic_iface.py), the operator  *)
(* routes (akita_navigator/web/routes.py) and the start-up sequence        *)
(* (dispatch_server.py).                                                   *)
(*                                                                         *)
(* Abstractions: a timestamp column is NULL or the atom "t"; a unit's      *)
(* last_update_time is "fresh" (within UNIT_OFFLINE_TIMEOUT_SECONDS) or    *)
(* "old"; the seconds elapsed since an ack row's sent_time are an input of  *)
(* restart recovery; a threading.Timer fires at any time while armed.      *)
(***************************************************************************)
EXTENDS Integers, Sequences, FiniteSets, Bags, TLC

\* ------------------------------------------------------------------ bounds
NumUnits == 2
NumDeliveries == 2
MaxMsgs == 2
\* Well-formed messages the radio delivers in one run of the inbound queue.
MaxArrivals == 502
\* Messages waiting in the inbound queue when a shutdown begins.
MaxQueued == 2
\* Threads that run interface methods at the same time.
NumThreads == 2
\* Commands the delivery unit receives, duplicates included.
MaxCommands == 3
\* consecutive_gps_failures is followed up to this value.
MaxGpsFailures == 11
\* Seconds since sent_time the ack windows are followed for.
MaxClock == 460

\* ------------------------------------------------------- program constants
ASSIGNMENT_ACK_TIMEOUT_SECONDS == 45
MAX_ASSIGNMENT_RETRIES == 3
RESTART_GUARD_SECONDS == 1
UNIT_MAX_GPS_FAILURES == 10
\* incoming_message_queue = queue.Queue(maxsize=500)
maxsize == 500

\* SQL NULL / Python None: in a text column, and in an id column.
NULL == "NULL"
NoId == 0
\* fetchone() returning None: the table has no such row.
NoRow == [absent |-> TRUE]

UnitIds == 1..NumUnits
DeliveryIds == 1..NumDeliveries
MsgIds == 1..MaxMsgs
\* An id no row ever has: "not found" inputs.
MissingId == -1

\* ------------------------------------------------ state machine definitions
VALID_DELIVERY_STATUSES ==
    {"pending", "assigned", "en_route", "arrived", "completed", "failed"}

VALID_UNIT_STATUSES ==
    {"idle", "assigned", "en_route", "arrived_dest", "returning", "offline", "error"}

DELIVERY_TRANSITIONS_mut_noreopen ==
    [s \in VALID_DELIVERY_STATUSES |->
        CASE s = "pending"   -> {"assigned", "failed"}
          [] s = "assigned"  -> {"en_route", "failed", "pending"}
          [] s = "en_route"  -> {"arrived", "failed", "returning"}
          [] s = "arrived"   -> {"completed", "failed", "returning"}
          [] s = "completed" -> {}
          [] s = "failed"    -> {"pending"}]

DELIVERY_TRANSITIONS ==
    [s \in VALID_DELIVERY_STATUSES |->
        CASE s = "pending"   -> {"assigned", "failed"}
          [] s = "assigned"  -> {"en_route", "failed", "pending"}
          [] s = "en_route"  -> {"arrived", "failed", "returning"}
          [] s = "arrived"   -> {"completed", "failed", "returning"}
          [] s = "completed" -> {"pending"}
          [] s = "failed"    -> {"pending"}]

UNIT_TRANSITIONS ==
    [s \in VALID_UNIT_STATUSES |->
        CASE s = "offline"      -> {"idle", "error"}
          [] s = "idle"         -> {"assigned", "error", "offline"}
          [] s = "assigned"     -> {"en_route", "idle", "error", "offline"}
          [] s = "en_route"     -> {"arrived_dest", "returning", "failed", "error", "offline"}
          [] s = "arrived_dest" -> {"returning", "idle", "failed", "error", "offline"}
          [] s = "returning"    -> {"idle", "error", "offline"}
          [] s = "error"        -> {"idle", "offline"}]

\* _validate_state_transition: the table lookup, and nothing else.
validate_state_transition(current_state, new_state, valid_transitions) ==
    IF current_state \notin DOMAIN valid_transitions
    THEN FALSE
    ELSE new_state \in valid_transitions[current_state]

\* ------------------------------------------------------------------- rows
\* add_delivery: the row INSERTed for a new delivery.  A timestamp is NULL or
\* "t" (set); the address and the coordinates are the ones the request gave.
NewDelivery ==
    [status |-> "pending", assigned_unit_id |-> NoId, failure_reason |-> NULL,
     assigned_time |-> NULL, enroute_time |-> NULL, arrived_time |-> NULL,
     completion_time |-> NULL,
     address |-> "address", latitude |-> "lat", longitude |-> "lon",
     creation_time |-> "t", last_update_time |-> "t"]

\* A unit row as the units table holds it (the columns the core reads).
UnitRow(st, del, node, lut) ==
    [current_status |-> st, assigned_delivery_id |-> del,
     meshtastic_node_id |-> node, last_update_time |-> lut,
     last_latitude |-> NULL, last_longitude |-> NULL, last_location_time |-> NULL]

\* ------------------------------------------------------- store operations
\* Each returns [ok, rows]: the function's success flag and the table after it.

update_delivery_status_mut_selfwrite(D, delivery_id, new_status, failure_reason) ==
    IF new_status \notin VALID_DELIVERY_STATUSES THEN [ok |-> FALSE, rows |-> D]
    ELSE IF delivery_id \notin DOMAIN D \/ D[delivery_id] = NoRow
    THEN [ok |-> FALSE, rows |-> D]
    ELSE LET row == D[delivery_id]
             cur == row.status
             w1  == [row EXCEPT !.status = new_status, !.last_update_time = "t"]
             w2  == CASE new_status = "assigned"  -> [w1 EXCEPT !.assigned_time = "t"]
                      [] new_status = "en_route"  -> [w1 EXCEPT !.enroute_time = "t"]
                      [] new_status = "arrived"   -> [w1 EXCEPT !.arrived_time = "t"]
                      [] new_status = "completed" -> [w1 EXCEPT !.completion_time = "t"]
                      [] new_status = "failed"    ->
                            [w1 EXCEPT !.failure_reason =
                                IF failure_reason # NULL THEN failure_reason ELSE "Unknown"]
                      [] OTHER -> w1
             w3  == IF new_status = "pending"
                    THEN [w2 EXCEPT !.assigned_unit_id = NoId, !.assigned_time = NULL,
                                    !.enroute_time = NULL, !.arrived_time = NULL,
                                    !.completion_time = NULL, !.failure_reason = NULL]
                    ELSE w2
         IN  IF validate_state_transition(cur, new_status, DELIVERY_TRANSITIONS)
                \/ new_status = cur
             THEN [ok |-> TRUE, rows |-> [D EXCEPT ![delivery_id] = w3]]
             ELSE [ok |-> FALSE, rows |-> D]

update_delivery_status_mut_keepunit(D, delivery_id, new_status, failure_reason) ==
    IF new_status \notin VALID_DELIVERY_STATUSES THEN [ok |-> FALSE, rows |-> D]
    ELSE IF delivery_id \notin DOMAIN D \/ D[delivery_id] = NoRow
    THEN [ok |-> FALSE, rows |-> D]
    ELSE LET row == D[delivery_id]
             cur == row.status
             w1  == [row EXCEPT !.status = new_status, !.last_update_time = "t"]
             w2  == CASE new_status = "assigned"  -> [w1 EXCEPT !.assigned_time = "t"]
                      [] new_status = "en_route"  -> [w1 EXCEPT !.enroute_time = "t"]
                      [] new_status = "arrived"   -> [w1 EXCEPT !.arrived_time = "t"]
                      [] new_status = "completed" -> [w1 EXCEPT !.completion_time = "t"]
                      [] new_status = "failed"    ->
                            [w1 EXCEPT !.failure_reason =
                                IF failure_reason # NULL THEN failure_reason ELSE "Unknown"]
                      [] OTHER -> w1
             w3  == IF new_status = "pending"
                    THEN [w2 EXCEPT !.assigned_time = NULL,
                                    !.enroute_time = NULL, !.arrived_time = NULL,
                                    !.completion_time = NULL, !.failure_reason = NULL]
                    ELSE w2
         IN  IF ~validate_state_transition(cur, new_status, DELIVERY_TRANSITIONS)
             THEN IF new_status = cur
                  THEN [ok |-> TRUE, rows |-> D]
                  ELSE [ok |-> FALSE, rows |-> D]
             ELSE [ok |-> TRUE, rows |-> [D EXCEPT ![delivery_id] = w3]]

update_delivery_status_mut_noreason(D, delivery_id, new_status, failure_reason) ==
    IF new_status \notin VALID_DELIVERY_STATUSES THEN [ok |-> FALSE, rows |-> D]
    ELSE IF delivery_id \notin DOMAIN D \/ D[delivery_id] = NoRow
    THEN [ok |-> FALSE, rows |-> D]
    ELSE LET row == D[delivery_id]
             cur == row.status
             w1  == [row EXCEPT !.status = new_status, !.last_update_time = "t"]
             w2  == CASE new_status = "assigned"  -> [w1 EXCEPT !.assigned_time = "t"]
                      [] new_status = "en_route"  -> [w1 EXCEPT !.enroute_time = "t"]
                      [] new_status = "arrived"   -> [w1 EXCEPT !.arrived_time = "t"]
                      [] new_status = "completed" -> [w1 EXCEPT !.completion_time = "t"]
                      [] new_status = "failed"    ->
                            [w1 EXCEPT !.failure_reason = failure_reason]
                      [] OTHER -> w1
             w3  == IF new_status = "pending"
                    THEN [w2 EXCEPT !.assigned_unit_id = NoId, !.assigned_time = NULL,
                                    !.enroute_time = NULL, !.arrived_time = NULL,
                                    !.completion_time = NULL, !.failure_reason = NULL]
                    ELSE w2
         IN  IF ~validate_state_transition(cur, new_status, DELIVERY_TRANSITIONS)
             THEN IF new_status = cur
                  THEN [ok |-> TRUE, rows |-> D]
                  ELSE [ok |-> FALSE, rows |-> D]
             ELSE [ok |-> TRUE, rows |-> [D EXCEPT ![delivery_id] = w3]]

\* update_delivery_status(delivery_id, new_status, failure_reason)
update_delivery_status(D, delivery_id, new_status, failure_reason) ==
    IF new_status \notin VALID_DELIVERY_STATUSES THEN [ok |-> FALSE, rows |-> D]
    ELSE IF delivery_id \notin DOMAIN D \/ D[delivery_id] = NoRow
    THEN [ok |-> FALSE, rows |-> D]
    ELSE LET row == D[delivery_id]
             cur == row.status
             w1  == [row EXCEPT !.status = new_status, !.last_update_time = "t"]
             w2  == CASE new_status = "assigned"  -> [w1 EXCEPT !.assigned_time = "t"]
                      [] new_status = "en_route"  -> [w1 EXCEPT !.enroute_time = "t"]
                      [] new_status = "arrived"   -> [w1 EXCEPT !.arrived_time = "t"]
                      [] new_status = "completed" -> [w1 EXCEPT !.completion_time = "t"]
                      [] new_status = "failed"    ->
                            [w1 EXCEPT !.failure_reason =
                                IF failure_reason # NULL THEN failure_reason ELSE "Unknown"]
                      [] OTHER -> w1
             w3  == IF new_status = "pending"
                    THEN [w2 EXCEPT !.assigned_unit_id = NoId, !.assigned_time = NULL,
                                    !.enroute_time = NULL, !.arrived_time = NULL,
                                    !.completion_time = NULL, !.failure_reason = NULL]
                    ELSE w2
         IN  IF ~validate_state_transition(cur, new_status, DELIVERY_TRANSITIONS)
             THEN IF new_status = cur
                  THEN [ok |-> TRUE, rows |-> D]
                  ELSE [ok |-> FALSE, rows |-> D]
             ELSE [ok |-> TRUE, rows |-> [D EXCEPT ![delivery_id] = w3]]

update_unit_status_mut_anytarget(U, unit_id, new_status, assigned_delivery_id, ts) ==
    IF unit_id \notin DOMAIN U \/ U[unit_id] = NoRow
    THEN [ok |-> FALSE, rows |-> U]
    ELSE LET row == U[unit_id]
             cur == row.current_status
             w1  == [row EXCEPT !.current_status = new_status, !.last_update_time = ts]
             w2  == IF new_status \in {"idle", "offline", "error"}
                    THEN [w1 EXCEPT !.assigned_delivery_id = NoId]
                    ELSE IF new_status = "assigned" /\ assigned_delivery_id # NoId
                    THEN [w1 EXCEPT !.assigned_delivery_id = assigned_delivery_id]
                    ELSE w1
         IN  IF ~validate_state_transition(cur, new_status, UNIT_TRANSITIONS)
             THEN IF new_status = cur
                  THEN [ok |-> TRUE,
                        rows |-> [U EXCEPT ![unit_id].last_update_time = ts]]
                  ELSE [ok |-> FALSE, rows |-> U]
             ELSE [ok |-> TRUE, rows |-> [U EXCEPT ![unit_id] = w2]]

\* update_unit_status(unit_id, new_status, assigned_delivery_id, timestamp):
\* `ts` is the value written to last_update_time.
update_unit_status(U, unit_id, new_status, assigned_delivery_id, ts) ==
    IF new_status \notin VALID_UNIT_STATUSES THEN [ok |-> FALSE, rows |-> U]
    ELSE IF unit_id \notin DOMAIN U \/ U[unit_id] = NoRow
    THEN [ok |-> FALSE, rows |-> U]
    ELSE LET row == U[unit_id]
             cur == row.current_status
             w1  == [row EXCEPT !.current_status = new_status, !.last_update_time = ts]
             w2  == IF new_status \in {"idle", "offline", "error"}
                    THEN [w1 EXCEPT !.assigned_delivery_id = NoId]
                    ELSE IF new_status = "assigned" /\ assigned_delivery_id # NoId
                    THEN [w1 EXCEPT !.assigned_delivery_id = assigned_delivery_id]
                    ELSE w1
         IN  IF ~validate_state_transition(cur, new_status, UNIT_TRANSITIONS)
             THEN IF new_status = cur
                  THEN [ok |-> TRUE,
                        rows |-> [U EXCEPT ![unit_id].last_update_time = ts]]
                  ELSE [ok |-> FALSE, rows |-> U]
             ELSE [ok |-> TRUE, rows |-> [U EXCEPT ![unit_id] = w2]]

\* upsert_unit(unit_id, meshtastic_node_id, latitude, longitude, location_time,
\* status, last_update_time): INSERT the unit, or on conflict UPDATE
\* last_update_time and each column whose argument is given (an invalid status
\* is ignored); the status is written as it is, without the transition table,
\* and no other column is touched.
upsert_unit(U, unit_id, meshtastic_node_id, latitude, longitude, location_time, status, now) ==
    LET st == IF status \in VALID_UNIT_STATUSES THEN status ELSE NULL IN
    IF U[unit_id] = NoRow
    THEN [U EXCEPT ![unit_id] =
             [UnitRow(IF st # NULL THEN st ELSE "offline", NoId, meshtastic_node_id, now)
                EXCEPT !.last_latitude = latitude, !.last_longitude = longitude,
                       !.last_location_time = location_time]]
    ELSE [U EXCEPT ![unit_id] =
             [@ EXCEPT !.last_update_time = now,
                       !.current_status = IF st # NULL THEN st ELSE @,
                       !.meshtastic_node_id =
                           IF meshtastic_node_id # NULL THEN meshtastic_node_id ELSE @,
                       !.last_latitude = IF latitude # NULL THEN latitude ELSE @,
                       !.last_longitude = IF longitude # NULL THEN longitude ELSE @,
                       !.last_location_time =
                           IF location_time # NULL THEN location_time ELSE @]]

\* The two UPDATEs of assign_delivery_to_unit, as row images.
AssignDeliveryWrite(row, unit_id) ==
    [row EXCEPT !.assigned_unit_id = unit_id, !.status = "assigned",
                !.assigned_time = "t", !.last_update_time = "t"]

AssignUnitWrite(row, delivery_id) ==
    [row EXCEPT !.assigned_delivery_id = delivery_id, !.current_status = "assigned",
                !.last_update_time = "fresh"]

\* ------------------------------------------------------------------ state
VARIABLES
    deliveries,   \* deliveries table (committed): DeliveryIds -> row | NoRow
    units,        \* units table (committed): UnitIds -> row | NoRow
    tx,           \* the open write transaction: its owner and its working copy
    asg,          \* assign_delivery_to_unit calls in progress, per caller
    last,         \* the last completed store call: arguments, row before, result
    acks,         \* pending_assignment_acks table: MsgIds -> row | NoRow
    timers,       \* per message id: the armed Timer _active_ack_timers holds
                  \* (mapped) and the armed Timers it no longer holds (orphans)
    hnd,          \* running _handle_assignment_timeout threads, per message id
    sa,           \* the assign_unit request in progress (route, send_assignment)
    ackw,         \* the message_processor_worker while it handles an ack
    rst,          \* the delayed_ack_restart thread
    up,           \* the dispatch process is running
    nextMsg,      \* the next message id send_assignment generates
    hist,         \* per message id: transmissions and events so far (observer)
    sw,           \* the run_offline_checker thread inside one sweep
    incoming_message_queue,  \* the inbound queue: messages in arrival order
    rx,           \* receive callback and worker: counts so far (observer)
    shutdown,     \* stop_event, the interface closed, main's shutdown sequence
                  \* and the worker's loop
    lk,           \* _timer_lock and _lock: their holders, and each thread's
                  \* position inside the interface method it runs
    unit,         \* the delivery unit process: its globals, its radio, its inbox
    win           \* one ack row on the clock: sent_time, retry_count, the armed
                  \* Timer's interval and who armed it

\* The threads outside the store and the messenger: sweep, receive, worker.
bgVars == <<sw, incoming_message_queue, rx, shutdown, lk, unit, win>>

\* The server runs: stop_event clear, the interface open, main inside serve(),
\* the worker in its loop.
NoShutdown == [stop |-> FALSE, closed |-> FALSE, main |-> "serve", worker |-> "loop"]

\* send_message: True or False while the interface is there; False once close
\* has set interface = None and _is_connected = False.
SendOutcomes == IF shutdown.closed THEN {FALSE} ELSE BOOLEAN

msgVars == <<acks, timers, hnd, sa, ackw, rst, up, nextMsg, hist, bgVars>>

NoOwner == "none"
NoTx == [owner |-> NoOwner, D |-> <<>>, U |-> <<>>]

\* Two request threads calling assign_delivery_to_unit.
Callers == {"c1", "c2"}

IdleCall == [pc |-> "idle", d |-> MissingId, u |-> MissingId,
             rd |-> NULL, ru |-> NULL, result |-> "none", msg |-> NULL]

NoCall == [op |-> "none"]

\* ---------------------------------------------- assign_delivery_to_unit
\* One action per statement.  The SELECTs run in autocommit mode and read the
\* committed tables; the first UPDATE opens the write transaction (sqlite3's
\* implicit BEGIN), which holds the database write lock until commit/rollback.

AsgStart(c, d, u) ==
    /\ asg[c].pc = "idle"
    /\ asg' = [asg EXCEPT ![c] = [IdleCall EXCEPT !.pc = "sel_d", !.d = d, !.u = u]]
    /\ UNCHANGED <<deliveries, units, tx>> /\ last' = NoCall
    /\ UNCHANGED msgVars

\* return <success>, <message>
AsgFinish(c, res, msg) ==
    [asg EXCEPT ![c].pc = "done", ![c].result = res, ![c].msg = msg]

\* SELECT status FROM deliveries; "Delivery not found"; _validate_state_transition
AsgSelDelivery_mut_novalidate(c) ==
    /\ asg[c].pc = "sel_d"
    /\ LET d == asg[c].d IN
        IF d \notin DeliveryIds \/ deliveries[d] = NoRow
        THEN asg' = AsgFinish(c, "fail", "Delivery not found")
        ELSE asg' = [asg EXCEPT ![c].pc = "sel_u", ![c].rd = deliveries[d].status]
    /\ UNCHANGED <<deliveries, units, tx>> /\ last' = NoCall
    /\ UNCHANGED msgVars

AsgSelDelivery(c) ==
    /\ asg[c].pc = "sel_d"
    /\ LET d == asg[c].d IN
        IF d \notin DeliveryIds \/ deliveries[d] = NoRow
        THEN asg' = AsgFinish(c, "fail", "Delivery not found")
        ELSE IF ~validate_state_transition(deliveries[d].status, "assigned",
                                           DELIVERY_TRANSITIONS)
        THEN asg' = AsgFinish(c, "fail", "Cannot assign delivery")
        ELSE asg' = [asg EXCEPT ![c].pc = "sel_u", ![c].rd = deliveries[d].status]
    /\ UNCHANGED <<deliveries, units, tx>> /\ last' = NoCall
    /\ UNCHANGED msgVars

\* SELECT current_status FROM units; "Unit not found"; "Unit not idle"
AsgSelUnit(c) ==
    /\ asg[c].pc = "sel_u"
    /\ LET u == asg[c].u IN
        IF u \notin UnitIds \/ units[u] = NoRow
        THEN asg' = AsgFinish(c, "fail", "Unit not found")
        ELSE IF units[u].current_status # "idle"
        THEN asg' = AsgFinish(c, "fail", "Unit not idle")
        ELSE IF ~validate_state_transition(units[u].current_status, "assigned",
                                           UNIT_TRANSITIONS)
        THEN asg' = AsgFinish(c, "fail", "Cannot assign unit")
        ELSE asg' = [asg EXCEPT ![c].pc = "upd_d", ![c].ru = units[u].current_status]
    /\ UNCHANGED <<deliveries, units, tx>> /\ last' = NoCall
    /\ UNCHANGED msgVars

\* conn.rollback() / the connection context manager's rollback on an exception:
\* the working copy is dropped, the committed tables stay.
RollbackStore_mut_partial ==
    /\ deliveries' = IF tx.owner # NoOwner THEN tx.D ELSE deliveries
    /\ units' = IF tx.owner # NoOwner THEN tx.U ELSE units

RollbackStore ==
    /\ deliveries' = deliveries
    /\ units' = units

\* UPDATE deliveries ... WHERE id = ? AND status = ?  (rowcount 0: rollback)
AsgUpdDelivery_mut_nowhere(c) ==
    /\ asg[c].pc = "upd_d"
    /\ tx.owner = NoOwner
    /\ LET d == asg[c].d IN
          /\ tx' = [owner |-> c,
                    D |-> [deliveries EXCEPT
                             ![d] = AssignDeliveryWrite(deliveries[d], asg[c].u)],
                    U |-> units]
          /\ asg' = [asg EXCEPT ![c].pc = "upd_u"]
          /\ UNCHANGED <<deliveries, units>>
    /\ last' = NoCall
    /\ UNCHANGED msgVars

AsgUpdDelivery(c) ==
    /\ asg[c].pc = "upd_d"
    /\ tx.owner = NoOwner
    /\ LET d == asg[c].d IN
        IF deliveries[d].status = asg[c].rd
        THEN /\ tx' = [owner |-> c,
                       D |-> [deliveries EXCEPT
                                ![d] = AssignDeliveryWrite(deliveries[d], asg[c].u)],
                       U |-> units]
             /\ asg' = [asg EXCEPT ![c].pc = "upd_u"]
             /\ UNCHANGED <<deliveries, units>>
        ELSE /\ tx' = NoTx
             /\ asg' = AsgFinish(c, "fail", "Failed to update delivery (race condition?)")
             /\ RollbackStore
    /\ last' = NoCall
    /\ UNCHANGED msgVars

\* sqlite3 busy timeout (10 s) while another connection holds the write lock:
\* OperationalError, caught, "Database error during assignment".
AsgBusyTimeout(c) ==
    /\ asg[c].pc = "upd_d"
    /\ tx.owner # NoOwner /\ tx.owner # c
    /\ asg' = AsgFinish(c, "fail", "Database error during assignment")
    /\ UNCHANGED <<deliveries, units, tx>> /\ last' = NoCall
    /\ UNCHANGED msgVars

\* UPDATE units ... WHERE unit_id = ? AND current_status = ?  (rowcount 0: rollback)
AsgUpdUnit(c) ==
    /\ asg[c].pc = "upd_u"
    /\ tx.owner = c
    /\ LET u == asg[c].u IN
        IF tx.U[u].current_status = asg[c].ru
        THEN /\ tx' = [tx EXCEPT !.U[u] = AssignUnitWrite(tx.U[u], asg[c].d)]
             /\ asg' = [asg EXCEPT ![c].pc = "commit"]
             /\ UNCHANGED <<deliveries, units>>
        ELSE /\ tx' = NoTx
             /\ asg' = AsgFinish(c, "fail", "Failed to update unit (race condition?)")
             /\ RollbackStore
    /\ last' = NoCall
    /\ UNCHANGED msgVars

\* An sqlite3.Error (or any exception) raised after the first write: the `with`
\* block rolls the transaction back and the call returns failure.
AsgFault(c) ==
    /\ asg[c].pc \in {"upd_u", "commit"}
    /\ tx.owner = c
    /\ tx' = NoTx
    /\ asg' = AsgFinish(c, "fail", "Database error during assignment")
    /\ RollbackStore
    /\ last' = NoCall
    /\ UNCHANGED msgVars

\* conn.commit(); return True, "Assignment successful"
AsgCommit(c) ==
    /\ asg[c].pc = "commit"
    /\ tx.owner = c
    /\ deliveries' = tx.D
    /\ units' = tx.U
    /\ tx' = NoTx
    /\ asg' = AsgFinish(c, "ok", "Assignment successful")
    /\ last' = NoCall
    /\ UNCHANGED msgVars

\* The caller takes the result; it may call again.
AsgReturn(c) ==
    /\ asg[c].pc = "done"
    /\ asg' = [asg EXCEPT ![c] = IdleCall]
    /\ UNCHANGED <<deliveries, units, tx>> /\ last' = NoCall
    /\ UNCHANGED msgVars

AsgStep(c) ==
    \/ AsgSelDelivery(c)
    \/ AsgSelUnit(c)
    \/ AsgUpdDelivery(c)
    \/ AsgBusyTimeout(c)
    \/ AsgUpdUnit(c)
    \/ AsgFault(c)
    \/ AsgCommit(c)
    \/ AsgReturn(c)

\* ------------------------------------ single store calls (one transaction)
\* update_delivery_status / update_unit_status called by a client of the store.
\* A writer waits for the database write lock.
DeliveryTargets == VALID_DELIVERY_STATUSES \cup UNION {DELIVERY_TRANSITIONS[s] : s \in VALID_DELIVERY_STATUSES}
UnitTargets == VALID_UNIT_STATUSES \cup UNION {UNIT_TRANSITIONS[s] : s \in VALID_UNIT_STATUSES}
Reasons == {NULL, "operator"}

CallUpdateDeliveryStatus(d, target, reason) ==
    /\ tx.owner = NoOwner
    /\ LET r == update_delivery_status(deliveries, d, target, reason) IN
          /\ deliveries' = r.rows
          /\ last' = [op |-> "update_delivery_status", id |-> d, target |-> target,
                      pre |-> IF d \in DeliveryIds THEN deliveries[d] ELSE NoRow,
                      ok |-> r.ok]
    /\ UNCHANGED <<units, tx, asg>>
    /\ UNCHANGED msgVars

CallUpdateUnitStatus(u, target, del) ==
    /\ tx.owner = NoOwner
    /\ LET r == update_unit_status(units, u, target, del, "fresh") IN
          /\ units' = r.rows
          /\ last' = [op |-> "update_unit_status", id |-> u, target |-> target,
                      pre |-> IF u \in UnitIds THEN units[u] ELSE NoRow,
                      ok |-> r.ok]
    /\ UNCHANGED <<deliveries, tx, asg>>
    /\ UNCHANGED msgVars

\* Time passes: a unit's last_update_time falls behind the offline threshold.
Age(u) ==
    /\ tx.owner = NoOwner
    /\ units[u] # NoRow
    /\ units[u].last_update_time = "fresh"
    /\ units' = [units EXCEPT ![u].last_update_time = "old"]
    /\ last' = NoCall
    /\ UNCHANGED <<deliveries, tx, asg>>
    /\ UNCHANGED msgVars

\* ------------------------------------------- pending_assignment_acks table
\* The row add_pending_ack INSERTs: status pending, retry_count 0.
AckRow(delivery_id, unit_id) ==
    [status |-> "pending", retry_count |-> 0,
     delivery_id |-> delivery_id, unit_id |-> unit_id]

\* add_pending_ack(msg_id, delivery_id, unit_id, destination_node_id, payload)
add_pending_ack(A, msg_id, delivery_id, unit_id) ==
    IF A[msg_id] # NoRow THEN [ok |-> FALSE, rows |-> A]
    ELSE [ok |-> TRUE, rows |-> [A EXCEPT ![msg_id] = AckRow(delivery_id, unit_id)]]

get_pending_ack_mut_anystatus(A, msg_id) ==
    IF msg_id \in DOMAIN A THEN A[msg_id] ELSE NoRow

\* get_pending_ack(msg_id): the row while it is pending, else None.
get_pending_ack(A, msg_id) ==
    IF msg_id \in DOMAIN A /\ A[msg_id] # NoRow /\ A[msg_id].status = "pending"
    THEN A[msg_id] ELSE NoRow

\* update_pending_ack_retry(msg_id): retry_count + 1 on a pending row.
update_pending_ack_retry(A, msg_id) ==
    IF get_pending_ack(A, msg_id) = NoRow THEN [ok |-> FALSE, rows |-> A]
    ELSE [ok |-> TRUE, rows |-> [A EXCEPT ![msg_id].retry_count = @ + 1]]

\* update_pending_ack_status(msg_id, new_status): pending -> acked | failed;
\* a row that is missing, acked or failed is left alone (returns False).
update_pending_ack_status(A, msg_id, new_status) ==
    IF get_pending_ack(A, msg_id) = NoRow THEN [ok |-> FALSE, rows |-> A]
    ELSE [ok |-> TRUE, rows |-> [A EXCEPT ![msg_id].status = new_status]]

\* get_all_pending_acks_for_restart(): the message ids of the pending rows.
get_all_pending_acks_for_restart(A) ==
    {m \in MsgIds : A[m] # NoRow /\ A[m].status = "pending"}

\* ------------------------------------------------------ timer bookkeeping
NoTimers == [mapped |-> FALSE, orphans |-> 0]

\* _start_ack_timer: cancel the Timer the map holds for msg_id, arm a new one
\* and store it in the map.
start_ack_timer(T, msg_id) == [T EXCEPT ![msg_id].mapped = TRUE]

\* _cancel_ack_timer: pop the map entry and cancel its Timer.
cancel_ack_timer(T, msg_id) == [T EXCEPT ![msg_id].mapped = FALSE]

\* _active_ack_timers.pop(msg_id, None) / .clear(): the entry goes, its Timer
\* is not cancelled; a Timer still armed stays armed, unreferenced.
DropTimerRef(t) ==
    IF t.mapped THEN [mapped |-> FALSE, orphans |-> t.orphans + 1] ELSE t

\* base_timeout - elapsed_seconds in restart_pending_ack_timers
remaining_timeout(retry_count, elapsed_seconds) ==
    ASSIGNMENT_ACK_TIMEOUT_SECONDS * (retry_count + 1) - elapsed_seconds

\* `if remaining_timeout > 1`
RestartArms_mut_guard(retry_count, elapsed_seconds) ==
    remaining_timeout(retry_count, elapsed_seconds) >= RESTART_GUARD_SECONDS

RestartArms(retry_count, elapsed_seconds) ==
    remaining_timeout(retry_count, elapsed_seconds) > RESTART_GUARD_SECONDS

\* Seconds between a row's sent_time and the restart: 0, and for each retry
\* window the value that leaves exactly the guard.
ElapsedSamples ==
    {0} \cup {ASSIGNMENT_ACK_TIMEOUT_SECONDS * k - RESTART_GUARD_SECONDS :
                 k \in 1..(MAX_ASSIGNMENT_RETRIES + 1)}

\* ------------------------------------------------------- thread records
NoSa == [pc |-> "idle", d |-> NoId, u |-> NoId, m |-> NoId]
NoAckw == [pc |-> "idle", m |-> NoId]
NoDid == [kind |-> "none"]
RstOff == [pc |-> "off", snap |-> [m \in MsgIds |-> NoRow], todo |-> {},
           did |-> [m \in MsgIds |-> NoDid]]
\* run_offline_checker between two sweeps.
NoSw == [pc |-> "idle", rows |-> <<>>, todo |-> {}, unit |-> NoId]

\* Nothing received, nothing dropped, nothing dequeued yet.
NoRx == [n |-> 0, dropped |-> 0, out |-> 0]

NoHist == [sent |-> 0, ackIn |-> FALSE, sendFailed |-> FALSE]

\* A timeout handler thread: its position and the retry_count it read.
Handler(pc, rc) == [pc |-> pc, rc |-> rc]

Running(m) == BagToSet(hnd[m])

\* A thread of hnd[m] moves from state h to state h2 / ends / starts.
HndMove(m, h, h2) ==
    [hnd EXCEPT ![m] = (@ (-) SetToBag({h})) (+) SetToBag({h2})]
HndEnd(m, h) == [hnd EXCEPT ![m] = @ (-) SetToBag({h})]
HndSpawn(H, m) == [H EXCEPT ![m] = @ (+) SetToBag({Handler("pop", 0)})]

storeAux == <<tx, asg, last, bgVars>>

\* ------------------------------------------------- assign_unit (the route)
\* db.assign_delivery_to_unit as one transaction: the outcome of the statement
\* sequence above when no other writer runs between its statements.
assign_delivery_to_unit(D, U, delivery_id, unit_id) ==
    IF delivery_id \notin DeliveryIds \/ D[delivery_id] = NoRow
    THEN [ok |-> FALSE, D |-> D, U |-> U]
    ELSE IF ~validate_state_transition(D[delivery_id].status, "assigned",
                                       DELIVERY_TRANSITIONS)
    THEN [ok |-> FALSE, D |-> D, U |-> U]
    ELSE IF unit_id \notin UnitIds \/ U[unit_id] = NoRow
    THEN [ok |-> FALSE, D |-> D, U |-> U]
    ELSE IF U[unit_id].current_status # "idle"
    THEN [ok |-> FALSE, D |-> D, U |-> U]
    ELSE [ok |-> TRUE,
          D |-> [D EXCEPT ![delivery_id] = AssignDeliveryWrite(D[delivery_id], unit_id)],
          U |-> [U EXCEPT ![unit_id] = AssignUnitWrite(U[unit_id], delivery_id)]]

\* POST /api/assign: step 1, the DB assignment; on failure the request ends.
RouteAssign(d, u) ==
    /\ up /\ sa.pc = "idle" /\ nextMsg <= MaxMsgs
    /\ ~shutdown.stop
    /\ LET r == assign_delivery_to_unit(deliveries, units, d, u) IN
          /\ deliveries' = r.D
          /\ units' = r.U
          /\ sa' = IF r.ok THEN [pc |-> "check", d |-> d, u |-> u, m |-> NoId] ELSE sa
    /\ UNCHANGED <<acks, timers, hnd, ackw, rst, up, nextMsg, hist>>
    /\ UNCHANGED storeAux

SaCheck_mut_nocheck ==
    /\ up /\ sa.pc = "check"
    /\ sa' = [sa EXCEPT !.pc = "persist"]
    /\ UNCHANGED <<deliveries, units, acks, timers, hnd, ackw, rst, up, nextMsg, hist>>
    /\ UNCHANGED storeAux

\* send_assignment: get_unit; "Unit has no Node ID"
SaCheck ==
    /\ up /\ sa.pc = "check"
    /\ sa' = IF units[sa.u] = NoRow \/ units[sa.u].meshtastic_node_id = NULL
             THEN [sa EXCEPT !.pc = "rv_del"]
             ELSE [sa EXCEPT !.pc = "persist"]
    /\ UNCHANGED <<deliveries, units, acks, timers, hnd, ackw, rst, up, nextMsg, hist>>
    /\ UNCHANGED storeAux

\* msg_id = uuid4().hex[:8]; add_pending_ack(...)   "Add to DB *before* sending"
SaPersist_mut_sendfirst ==
    /\ up /\ sa.pc = "persist"
    /\ LET r == add_pending_ack(acks, nextMsg, sa.d, sa.u) IN
          /\ acks' = r.rows
          /\ sa' = [sa EXCEPT !.pc = "send", !.m = nextMsg]
    /\ nextMsg' = nextMsg + 1
    /\ hist' = [hist EXCEPT ![nextMsg].sent = @ + 1]
    /\ UNCHANGED <<deliveries, units, timers, hnd, ackw, rst, up>>
    /\ UNCHANGED storeAux

SaPersist ==
    /\ up /\ sa.pc = "persist"
    /\ LET r == add_pending_ack(acks, nextMsg, sa.d, sa.u) IN
          /\ acks' = r.rows
          /\ sa' = [sa EXCEPT !.pc = "send", !.m = nextMsg]
    /\ nextMsg' = nextMsg + 1
    /\ UNCHANGED <<deliveries, units, timers, hnd, ackw, rst, up, hist>>
    /\ UNCHANGED storeAux

\* add_pending_ack and get_pending_ack both fail: "DB error storing ACK state"
SaPersistFault ==
    /\ up /\ sa.pc = "persist"
    /\ sa' = [sa EXCEPT !.pc = "rv_del"]
    /\ nextMsg' = nextMsg + 1
    /\ UNCHANGED <<deliveries, units, acks, timers, hnd, ackw, rst, up, hist>>
    /\ UNCHANGED storeAux

\* send_message: True when the radio library queued the packet, else False.
Transmit(m, ok) ==
    [hist EXCEPT ![m] = IF ok THEN [@ EXCEPT !.sent = @ + 1]
                        ELSE [@ EXCEPT !.sendFailed = TRUE]]

SaSend_mut_armonfail ==
    /\ up /\ sa.pc = "send"
    /\ \E ok \in SendOutcomes :
          /\ hist' = Transmit(sa.m, ok)
          /\ sa' = [sa EXCEPT !.pc = "arm"]
    /\ UNCHANGED <<deliveries, units, acks, timers, hnd, ackw, rst, up, nextMsg>>
    /\ UNCHANGED storeAux

\* initial_send_success = self.send_message(payload, ...)
SaSend ==
    /\ up /\ sa.pc = "send"
    /\ \E ok \in SendOutcomes :
          /\ hist' = Transmit(sa.m, ok)
          /\ sa' = [sa EXCEPT !.pc = IF ok THEN "arm" ELSE "f_row"]
    /\ UNCHANGED <<deliveries, units, acks, timers, hnd, ackw, rst, up, nextMsg>>
    /\ UNCHANGED storeAux

\* self._start_ack_timer(msg_id, ASSIGNMENT_ACK_TIMEOUT_SECONDS); return True
SaArm ==
    /\ up /\ sa.pc = "arm"
    /\ timers' = start_ack_timer(timers, sa.m)
    /\ sa' = NoSa
    /\ UNCHANGED <<deliveries, units, acks, hnd, ackw, rst, up, nextMsg, hist>>
    /\ UNCHANGED storeAux

\* Initial send failed: the three writes, then return False.
SaFailRow ==
    /\ up /\ sa.pc = "f_row"
    /\ acks' = update_pending_ack_status(acks, sa.m, "failed").rows
    /\ sa' = [sa EXCEPT !.pc = "f_del"]
    /\ UNCHANGED <<deliveries, units, timers, hnd, ackw, rst, up, nextMsg, hist>>
    /\ UNCHANGED storeAux

SaFailDelivery ==
    /\ up /\ sa.pc = "f_del"
    /\ deliveries' = update_delivery_status(deliveries, sa.d, "failed", "send failed").rows
    /\ sa' = [sa EXCEPT !.pc = "f_unit"]
    /\ UNCHANGED <<units, acks, timers, hnd, ackw, rst, up, nextMsg, hist>>
    /\ UNCHANGED storeAux

SaFailUnit ==
    /\ up /\ sa.pc = "f_unit"
    /\ units' = update_unit_status(units, sa.u, "error", NoId, "fresh").rows
    /\ sa' = [sa EXCEPT !.pc = "rv_del"]
    /\ UNCHANGED <<deliveries, acks, timers, hnd, ackw, rst, up, nextMsg, hist>>
    /\ UNCHANGED storeAux

RevertDelivery_mut_skip ==
    /\ up /\ sa.pc = "rv_del"
    /\ sa' = [sa EXCEPT !.pc = "rv_unit"]
    /\ UNCHANGED <<deliveries, units, acks, timers, hnd, ackw, rst, up, nextMsg, hist>>
    /\ UNCHANGED storeAux

\* assign_unit, send_assignment returned False: "Revert DB changes".
RevertDelivery ==
    /\ up /\ sa.pc = "rv_del"
    /\ deliveries' = update_delivery_status(deliveries, sa.d, "pending",
                                            "Failed to send assignment").rows
    /\ sa' = [sa EXCEPT !.pc = "rv_unit"]
    /\ UNCHANGED <<units, acks, timers, hnd, ackw, rst, up, nextMsg, hist>>
    /\ UNCHANGED storeAux

RevertUnit ==
    /\ up /\ sa.pc = "rv_unit"
    /\ units' = update_unit_status(units, sa.u, "idle", NoId, "fresh").rows
    /\ sa' = NoSa
    /\ UNCHANGED <<deliveries, acks, timers, hnd, ackw, rst, up, nextMsg, hist>>
    /\ UNCHANGED storeAux

SendAssignmentStep ==
    \/ SaCheck
    \/ SaPersist
    \/ SaPersistFault
    \/ SaSend
    \/ SaArm
    \/ SaFailRow
    \/ SaFailDelivery
    \/ SaFailUnit
    \/ RevertDelivery
    \/ RevertUnit

\* ------------------------------------------- _handle_assignment_timeout
\* A threading.Timer that is armed fires: its thread starts the handler.
TimerFire(m) ==
    /\ up
    /\ \/ /\ timers[m].mapped
          /\ timers' = [timers EXCEPT ![m].mapped = FALSE]
       \/ /\ timers[m].orphans > 0
          /\ timers' = [timers EXCEPT ![m].orphans = @ - 1]
    /\ hnd' = HndSpawn(hnd, m)
    /\ UNCHANGED <<deliveries, units, acks, sa, ackw, rst, up, nextMsg, hist>>
    /\ UNCHANGED storeAux

\* with self._timer_lock: self._active_ack_timers.pop(msg_id, None)
HPop(m) ==
    \E h \in Running(m) :
        /\ up /\ h.pc = "pop"
        /\ timers' = [timers EXCEPT ![m] = DropTimerRef(@)]
        /\ hnd' = HndMove(m, h, Handler("read", 0))
        /\ UNCHANGED <<deliveries, units, acks, sa, ackw, rst, up, nextMsg, hist>>
        /\ UNCHANGED storeAux

\* pending_info = get_pending_ack(msg_id); if not pending_info: return;
\* if current_retry_count < MAX_ASSIGNMENT_RETRIES ... else ...
HRead(m) ==
    \E h \in Running(m) :
        /\ up /\ h.pc = "read"
        /\ LET pending_info == get_pending_ack(acks, m) IN
              hnd' = IF pending_info = NoRow THEN HndEnd(m, h)
                     ELSE IF pending_info.retry_count < MAX_ASSIGNMENT_RETRIES
                     THEN HndMove(m, h, Handler("retry", pending_info.retry_count))
                     ELSE HndMove(m, h, Handler("f_row", pending_info.retry_count))
        /\ UNCHANGED <<deliveries, units, acks, timers, sa, ackw, rst, up, nextMsg, hist>>
        /\ UNCHANGED storeAux

\* if database.update_pending_ack_retry(msg_id): ... else: "Aborting."
HRetry(m) ==
    \E h \in Running(m) :
        /\ up /\ h.pc = "retry"
        /\ LET r == update_pending_ack_retry(acks, m) IN
              /\ acks' = r.rows
              /\ hnd' = IF r.ok THEN HndMove(m, h, Handler("send", h.rc)) ELSE HndEnd(m, h)
        /\ UNCHANGED <<deliveries, units, timers, sa, ackw, rst, up, nextMsg, hist>>
        /\ UNCHANGED storeAux

\* update_pending_ack_retry could not write (a store error) and returns
\* False: "Failed to update retry count ... Aborting."
HRetryFault(m) ==
    \E h \in Running(m) :
        /\ up /\ h.pc = "retry"
        /\ hnd' = HndEnd(m, h)
        /\ UNCHANGED <<deliveries, units, acks, timers, sa, ackw, rst, up, nextMsg, hist>>
        /\ UNCHANGED storeAux

\* send_success = self.send_message(pending_info['payload'], ...)
HSend(m) ==
    \E h \in Running(m) :
        /\ up /\ h.pc = "send"
        /\ \E ok \in SendOutcomes :
              /\ hist' = Transmit(m, ok)
              /\ hnd' = HndMove(m, h, Handler(IF ok THEN "arm" ELSE "f_row", h.rc))
        /\ UNCHANGED <<deliveries, units, acks, timers, sa, ackw, rst, up, nextMsg>>
        /\ UNCHANGED storeAux

\* self._start_ack_timer(msg_id, TIMEOUT * (current_retry_count + 2))
HArm(m) ==
    \E h \in Running(m) :
        /\ up /\ h.pc = "arm"
        /\ timers' = start_ack_timer(timers, m)
        /\ hnd' = HndEnd(m, h)
        /\ UNCHANGED <<deliveries, units, acks, sa, ackw, rst, up, nextMsg, hist>>
        /\ UNCHANGED storeAux

\* database.update_pending_ack_status(msg_id, 'failed')  (result not looked at)
HFailRow(m) ==
    \E h \in Running(m) :
        /\ up /\ h.pc = "f_row"
        /\ acks' = update_pending_ack_status(acks, m, "failed").rows
        /\ hnd' = HndMove(m, h, Handler("f_del", h.rc))
        /\ UNCHANGED <<deliveries, units, timers, sa, ackw, rst, up, nextMsg, hist>>
        /\ UNCHANGED storeAux

\* database.update_delivery_status(delivery_id, 'failed', ...)
HFailDelivery(m) ==
    \E h \in Running(m) :
        /\ up /\ h.pc = "f_del"
        /\ deliveries' = update_delivery_status(deliveries, acks[m].delivery_id,
                                                "failed", "ack timeout").rows
        /\ hnd' = HndMove(m, h, Handler("f_unit", h.rc))
        /\ UNCHANGED <<units, acks, timers, sa, ackw, rst, up, nextMsg, hist>>
        /\ UNCHANGED storeAux

\* database.update_unit_status(unit_id, 'error', ...)
HFailUnit(m) ==
    \E h \in Running(m) :
        /\ up /\ h.pc = "f_unit"
        /\ units' = update_unit_status(units, acks[m].unit_id, "error", NoId, "fresh").rows
        /\ hnd' = HndEnd(m, h)
        /\ UNCHANGED <<deliveries, acks, timers, sa, ackw, rst, up, nextMsg, hist>>
        /\ UNCHANGED storeAux

HandlerStep(m) ==
    \/ HPop(m)
    \/ HRead(m)
    \/ HRetry(m)
    \/ HSend(m)
    \/ HArm(m)
    \/ HFailRow(m)
    \/ HFailDelivery(m)
    \/ HFailUnit(m)

\* ------------------------------------------------- _handle_incoming_ack
\* The worker takes an ack off the queue: a unit acks a command it received
\* (ack_id = m), or the ack_id names no row at all (ack_id = MissingId).
AckArrive(m) ==
    /\ up /\ ackw.pc = "idle"
    /\ m \in MsgIds => hist[m].sent > 0
    /\ ackw' = [pc |-> "upd", m |-> m]
    /\ hist' = IF m \in MsgIds THEN [hist EXCEPT ![m].ackIn = TRUE] ELSE hist
    /\ UNCHANGED <<deliveries, units, acks, timers, hnd, sa, rst, up, nextMsg>>
    /\ UNCHANGED storeAux

AckUpdate_mut_overwrite ==
    /\ up /\ ackw.pc = "upd"
    /\ LET hasRow == ackw.m \in MsgIds /\ acks[ackw.m] # NoRow IN
          /\ acks' = IF hasRow THEN [acks EXCEPT ![ackw.m].status = "acked"] ELSE acks
          /\ ackw' = IF hasRow THEN [ackw EXCEPT !.pc = "cancel"] ELSE NoAckw
    /\ UNCHANGED <<deliveries, units, timers, hnd, sa, rst, up, nextMsg, hist>>
    /\ UNCHANGED storeAux

\* if database.update_pending_ack_status(acked_msg_id, 'acked'): ...
AckUpdate ==
    /\ up /\ ackw.pc = "upd"
    /\ LET r == update_pending_ack_status(acks, ackw.m, "acked") IN
          /\ acks' = r.rows
          /\ ackw' = IF r.ok THEN [ackw EXCEPT !.pc = "cancel"] ELSE NoAckw
    /\ UNCHANGED <<deliveries, units, timers, hnd, sa, rst, up, nextMsg, hist>>
    /\ UNCHANGED storeAux

\* ... self._cancel_ack_timer(acked_msg_id)
AckCancel ==
    /\ up /\ ackw.pc = "cancel"
    /\ timers' = cancel_ack_timer(timers, ackw.m)
    /\ ackw' = NoAckw
    /\ UNCHANGED <<deliveries, units, acks, hnd, sa, rst, up, nextMsg, hist>>
    /\ UNCHANGED storeAux

\* ------------------------------------------- restart_pending_ack_timers
\* delayed_ack_restart has slept; pending_acks = get_all_pending_acks_for_restart()
RstLoad ==
    /\ up /\ rst.pc = "wait"
    /\ LET pending_acks == get_all_pending_acks_for_restart(acks) IN
          rst' = IF shutdown.stop THEN RstOff
                 ELSE [rst EXCEPT !.pc = "clear", !.todo = pending_acks,
                                  !.snap = [m \in MsgIds |->
                                       IF m \in pending_acks THEN acks[m] ELSE NoRow]]
    /\ UNCHANGED <<deliveries, units, acks, timers, hnd, sa, ackw, up, nextMsg, hist>>
    /\ UNCHANGED storeAux

\* with self._timer_lock: self._active_ack_timers.clear()
RstClear ==
    /\ up /\ rst.pc = "clear"
    /\ timers' = [m \in MsgIds |-> DropTimerRef(timers[m])]
    /\ rst' = [rst EXCEPT !.pc = "loop"]
    /\ UNCHANGED <<deliveries, units, acks, hnd, sa, ackw, up, nextMsg, hist>>
    /\ UNCHANGED storeAux

\* One iteration of `for ack_info in pending_acks`; elapsed_seconds is what
\* now_dt - sent_dt came to for this row.
RstRow(elapsed_seconds) ==
    /\ up /\ rst.pc = "loop" /\ rst.todo # {}
    /\ LET m  == CHOOSE x \in rst.todo : \A y \in rst.todo : x <= y
           rc == rst.snap[m].retry_count
       IN  IF RestartArms(rc, elapsed_seconds)
           THEN /\ timers' = start_ack_timer(timers, m)
                /\ hnd' = hnd
                /\ rst' = [rst EXCEPT !.todo = @ \ {m},
                              !.did[m] = [kind |-> "timer", elapsed |-> elapsed_seconds,
                                          seconds |-> remaining_timeout(rc, elapsed_seconds)]]
           ELSE /\ timers' = timers
                /\ hnd' = HndSpawn(hnd, m)
                /\ rst' = [rst EXCEPT !.todo = @ \ {m},
                              !.did[m] = [kind |-> "handler", elapsed |-> elapsed_seconds,
                                          seconds |-> 0]]
    /\ UNCHANGED <<deliveries, units, acks, sa, ackw, up, nextMsg, hist>>
    /\ UNCHANGED storeAux

\* "Finished ACK restart"
RstDone ==
    /\ up /\ rst.pc = "loop" /\ rst.todo = {}
    /\ rst' = [rst EXCEPT !.pc = "done"]
    /\ UNCHANGED <<deliveries, units, acks, timers, hnd, sa, ackw, up, nextMsg, hist>>
    /\ UNCHANGED storeAux

\* The restart thread ends.
RstExit ==
    /\ up /\ rst.pc = "done"
    /\ rst' = RstOff
    /\ UNCHANGED <<deliveries, units, acks, timers, hnd, sa, ackw, up, nextMsg, hist>>
    /\ UNCHANGED storeAux

\* ------------------------------------------------------ process lifetime
\* The process dies: threads, Timers and the timer map are gone, the tables stay.
Crash ==
    /\ up
    /\ up' = FALSE
    /\ timers' = [m \in MsgIds |-> NoTimers]
    /\ hnd' = [m \in MsgIds |-> EmptyBag]
    /\ sa' = NoSa
    /\ ackw' = NoAckw
    /\ rst' = RstOff
    /\ sw' = NoSw
    /\ incoming_message_queue' = <<>>
    /\ UNCHANGED <<deliveries, units, acks, nextMsg, hist, rx, shutdown, lk, unit, win>>
    /\ UNCHANGED <<tx, asg, last>>

\* ------------------------------------------ manual_update_delivery_status
\* POST /api/delivery/<id>/status: the delivery update and its unit cascade.
manual_update_delivery_status(D, U, delivery_id, new_status, reason) ==
    IF D[delivery_id] = NoRow THEN [ok |-> FALSE, D |-> D, U |-> U]
    ELSE LET assigned_unit_id == D[delivery_id].assigned_unit_id
             r == update_delivery_status(D, delivery_id, new_status, reason)
         IN  IF ~r.ok THEN [ok |-> FALSE, D |-> D, U |-> U]
             ELSE IF new_status = "failed" /\ assigned_unit_id # NoId
             THEN LET r1 == update_unit_status(U, assigned_unit_id, "returning",
                                               NoId, "fresh")
                      r2 == update_unit_status(U, assigned_unit_id, "idle",
                                               NoId, "fresh")
                  IN  [ok |-> TRUE, D |-> r.rows,
                       U |-> IF r1.ok THEN r1.rows ELSE r2.rows]
             ELSE IF new_status = "pending" /\ assigned_unit_id # NoId
             THEN [ok |-> TRUE, D |-> r.rows,
                   U |-> update_unit_status(U, assigned_unit_id, "idle",
                                            NoId, "fresh").rows]
             ELSE [ok |-> TRUE, D |-> r.rows, U |-> U]

ManualStatuses == {"completed", "failed", "pending"}

\* send_task_complete(unit_id, delivery_id): a fresh msg_id and one
\* send_message; nothing is written to the ack table and no timer is armed.
send_task_complete(unit_id) ==
    IF units[unit_id] = NoRow \/ units[unit_id].meshtastic_node_id = NULL
    THEN UNCHANGED <<nextMsg, hist>>
    ELSE /\ nextMsg <= MaxMsgs
         /\ nextMsg' = nextMsg + 1
         /\ \E ok \in SendOutcomes : hist' = Transmit(nextMsg, ok)

\* The route: on 'completed' of a delivery that has a unit, notify the unit.
RouteManual(d, new_status, reason) ==
    /\ up /\ ~shutdown.stop
    /\ LET r == manual_update_delivery_status(deliveries, units, d, new_status, reason)
           assigned_unit_id == IF deliveries[d] = NoRow THEN NoId
                               ELSE deliveries[d].assigned_unit_id
       IN  /\ deliveries' = r.D
           /\ units' = r.U
           /\ IF r.ok /\ new_status = "completed" /\ assigned_unit_id # NoId
              THEN send_task_complete(assigned_unit_id)
              ELSE UNCHANGED <<nextMsg, hist>>
    /\ UNCHANGED <<acks, timers, hnd, sa, ackw, rst, up>>
    /\ UNCHANGED storeAux

\* ------------------------------------------ check_and_update_offline_units
\* failure_reason=f"Unit {unit_id} went offline"
OfflineReason(unit_id) == "Unit " \o ToString(unit_id) \o " went offline"

\* The loop over units_to_mark_offline; `rows` is the SELECT's result.
RECURSIVE SweepUnits(_, _, _, _)
SweepUnits(todo, rows, D, U) ==
    IF todo = {} THEN [D |-> D, U |-> U]
    ELSE LET unit_id == CHOOSE x \in todo : \A y \in todo : x <= y
             assigned_del_id == rows[unit_id].assigned_delivery_id
             r == update_unit_status(U, unit_id, "offline", NoId, "old")
             failIt == /\ r.ok
                       /\ assigned_del_id # NoId
                       /\ D[assigned_del_id] # NoRow
                       /\ D[assigned_del_id].status \notin {"completed", "failed"}
             D2 == IF failIt
                   THEN update_delivery_status(D, assigned_del_id, "failed",
                                               OfflineReason(unit_id)).rows
                   ELSE D
         IN  SweepUnits(todo \ {unit_id}, rows, D2, r.rows)

check_and_update_offline_units_mut_allunits(D, U) ==
    SweepUnits({u \in UnitIds : /\ U[u] # NoRow
                                /\ U[u].current_status # "offline"}, U, D, U)

\* SELECT ... WHERE current_status != 'offline' AND last_update_time < threshold,
\* then the loop.
check_and_update_offline_units(D, U) ==
    SweepUnits({u \in UnitIds : /\ U[u] # NoRow
                                /\ U[u].current_status # "offline"
                                /\ U[u].last_update_time = "old"}, U, D, U)

\* _handle_incoming_message for a status / loc report of unit u: the unit is
\* upserted with the sender's node id and last_update_time = now.
Report(u) ==
    /\ up
    /\ units' = upsert_unit(units, u, "node", NULL, NULL, NULL, NULL, "fresh")
    /\ UNCHANGED deliveries
    /\ UNCHANGED msgVars
    /\ UNCHANGED storeAux

\* Type tags: MSG_TYPE_LOCATION, MSG_TYPE_STATUS_UPDATE are the reports the
\* dispatcher processes (acks go to _handle_incoming_ack); "bogus" stands for
\* any other tag.
RecognizedTypes == {"loc", "status"}
Positions == {"p1", "p2"}
ReportedStatuses == {"idle", "en_route", "arrived_dest", "error", "junk"}

\* A dequeued message (a JSON object with a type tag): unit_id is NoId when it
\* carries none; `status` is read from status reports, `pos` from loc reports.
InboundMessages ==
    [type : {"bogus"}, unit_id : UnitIds \cup {NoId}, status : {NULL}, pos : {NULL}]
    \cup [type : {"loc"}, unit_id : UnitIds \cup {NoId}, status : {NULL}, pos : Positions]
    \cup [type : {"status"}, unit_id : UnitIds \cup {NoId},
          status : ReportedStatuses, pos : {NULL}]

process_report_mut_stepwise(U, msg) ==
    CASE msg.type = "loc" ->
            LET U1 == upsert_unit(U, msg.unit_id, NULL, msg.pos, msg.pos, "t",
                                  NULL, "fresh") IN
            CASE U1[msg.unit_id].current_status = "error" ->
                    update_unit_status(U1, msg.unit_id, "offline", NoId, "fresh").rows
              [] U1[msg.unit_id].current_status = "offline" ->
                    update_unit_status(U1, msg.unit_id, "idle", NoId, "fresh").rows
              [] OTHER -> U1
      [] msg.type = "status" ->
            upsert_unit(U, msg.unit_id, NULL, NULL, NULL, NULL, msg.status, "fresh")
      [] OTHER -> U

\* The type-specific part of _handle_incoming_message ("Process LOC, STATUS
\* etc. update DB, reset offline/error status if needed"): a loc report upserts
\* the position, a status report upserts the reported status, and a loc report
\* of a unit that is in error clears the error; any other type is discarded.
process_report(U, msg) ==
    CASE msg.type = "loc" ->
            LET U1 == upsert_unit(U, msg.unit_id, NULL, msg.pos, msg.pos, "t",
                                  NULL, "fresh") IN
            IF U1[msg.unit_id].current_status = "error"
            THEN update_unit_status(U1, msg.unit_id, "idle", NoId, "fresh").rows
            ELSE U1
      [] msg.type = "status" ->
            upsert_unit(U, msg.unit_id, NULL, NULL, NULL, NULL, msg.status, "fresh")
      [] OTHER -> U

\* The units table after _handle_incoming_message(message_data, packet) for a
\* message that is not an ack: without unit_id it returns; otherwise the unit
\* is upserted with the sender's node id and last_update_time = now, and then
\* the message is processed by type.
IncomingResult(U, msg) ==
    IF msg.unit_id = NoId THEN U
    ELSE process_report(
             upsert_unit(U, msg.unit_id, "node", NULL, NULL, NULL, NULL, "fresh"), msg)

\* message_processor_worker hands a dequeued message to
\* _handle_incoming_message.
handle_incoming_message(msg) ==
    /\ up /\ shutdown.worker = "loop"
    /\ units' = IncomingResult(units, msg)
    /\ UNCHANGED deliveries
    /\ UNCHANGED msgVars
    /\ UNCHANGED storeAux

\* The liveness thread's periodic sweep, run with nothing else in between.
Sweep ==
    /\ up /\ ~shutdown.stop
    /\ LET r == check_and_update_offline_units(deliveries, units) IN
          /\ deliveries' = r.D
          /\ units' = r.U
    /\ UNCHANGED msgVars
    /\ UNCHANGED storeAux

\* The same sweep as the thread runs it beside the other threads: the SELECT,
\* then per selected row update_unit_status, get_delivery and
\* update_delivery_status, each a store call of its own.
SwScan ==
    /\ up /\ sw.pc = "idle" /\ ~shutdown.stop
    /\ LET units_to_mark_offline ==
               {u \in UnitIds : /\ units[u] # NoRow
                                /\ units[u].current_status # "offline"
                                /\ units[u].last_update_time = "old"}
       IN  sw' = IF units_to_mark_offline = {} THEN NoSw
                 ELSE [pc |-> "unit", rows |-> units, todo |-> units_to_mark_offline,
                       unit |-> NoId]
    /\ UNCHANGED <<deliveries, units, tx, asg, last, incoming_message_queue, rx, shutdown, lk, unit, win>>
    /\ UNCHANGED <<acks, timers, hnd, sa, ackw, rst, up, nextMsg, hist>>

\* The loop moves on to the next selected row, or the sweep returns.
SwAdvance(todo) ==
    IF todo = {} THEN NoSw
    ELSE [sw EXCEPT !.pc = "unit", !.todo = todo, !.unit = NoId]

\* success, _ = update_unit_status(unit_id, 'offline', timestamp=offline_threshold_str)
SwUnit ==
    /\ up /\ sw.pc = "unit"
    /\ LET unit_id == CHOOSE x \in sw.todo : \A y \in sw.todo : x <= y
           r == update_unit_status(units, unit_id, "offline", NoId, "old")
       IN  /\ units' = r.rows
           /\ sw' = IF r.ok /\ sw.rows[unit_id].assigned_delivery_id # NoId
                    THEN [sw EXCEPT !.pc = "get", !.todo = @ \ {unit_id},
                                    !.unit = unit_id]
                    ELSE SwAdvance(sw.todo \ {unit_id})
    /\ UNCHANGED <<deliveries, tx, asg, last, incoming_message_queue, rx, shutdown, lk, unit, win>>
    /\ UNCHANGED <<acks, timers, hnd, sa, ackw, rst, up, nextMsg, hist>>

\* delivery = get_delivery(assigned_del_id); status not in completed / failed?
SwGet ==
    /\ up /\ sw.pc = "get"
    /\ LET assigned_del_id == sw.rows[sw.unit].assigned_delivery_id IN
          sw' = IF /\ deliveries[assigned_del_id] # NoRow
                   /\ deliveries[assigned_del_id].status \notin {"completed", "failed"}
                THEN [sw EXCEPT !.pc = "fail"]
                ELSE SwAdvance(sw.todo)
    /\ UNCHANGED <<deliveries, units, tx, asg, last, incoming_message_queue, rx, shutdown, lk, unit, win>>
    /\ UNCHANGED <<acks, timers, hnd, sa, ackw, rst, up, nextMsg, hist>>

\* update_delivery_status(assigned_del_id, 'failed', failure_reason=...)
SwFail ==
    /\ up /\ sw.pc = "fail"
    /\ deliveries' = update_delivery_status(deliveries,
                          sw.rows[sw.unit].assigned_delivery_id, "failed",
                          OfflineReason(sw.unit)).rows
    /\ sw' = SwAdvance(sw.todo)
    /\ UNCHANGED <<units, tx, asg, last, incoming_message_queue, rx, shutdown, lk, unit, win>>
    /\ UNCHANGED <<acks, timers, hnd, sa, ackw, rst, up, nextMsg, hist>>

\* ------------------------------------------------------ the inbound queue
\* What the radio library hands to the receive callback: a JSON message with a
\* type, a packet of the dispatcher's own node, a payload that does not decode,
\* JSON without a type, or a packet without payload.
PacketKinds == {"message", "own", "undecodable", "untyped", "other"}

queued_on_receive_mut_dropoldest(kind) ==
    /\ up /\ ~shutdown.closed
    /\ IF kind = "message"
       THEN /\ rx.n < MaxArrivals
            /\ IF Len(incoming_message_queue) < maxsize
               THEN /\ incoming_message_queue' = Append(incoming_message_queue, rx.n + 1)
                    /\ rx' = [rx EXCEPT !.n = @ + 1]
               ELSE /\ incoming_message_queue' =
                          Append(Tail(incoming_message_queue), rx.n + 1)
                    /\ rx' = [rx EXCEPT !.n = @ + 1, !.dropped = @ + 1]
       ELSE UNCHANGED <<incoming_message_queue, rx>>
    /\ UNCHANGED <<deliveries, units, tx, asg, last, sw, shutdown, lk, unit, win>>
    /\ UNCHANGED <<acks, timers, hnd, sa, ackw, rst, up, nextMsg, hist>>

\* queued_on_receive(packet, interface): everything but a typed JSON message
\* from another node is ignored; the message, numbered by arrival, goes to the
\* queue with put_nowait, and on queue.Full it is logged and dropped.
queued_on_receive(kind) ==
    /\ up /\ ~shutdown.closed
    /\ IF kind = "message"
       THEN /\ rx.n < MaxArrivals
            /\ IF Len(incoming_message_queue) < maxsize
               THEN /\ incoming_message_queue' = Append(incoming_message_queue, rx.n + 1)
                    /\ rx' = [rx EXCEPT !.n = @ + 1]
               ELSE /\ incoming_message_queue' = incoming_message_queue
                    /\ rx' = [rx EXCEPT !.n = @ + 1, !.dropped = @ + 1]
       ELSE UNCHANGED <<incoming_message_queue, rx>>
    /\ UNCHANGED <<deliveries, units, tx, asg, last, sw, shutdown, lk, unit, win>>
    /\ UNCHANGED <<acks, timers, hnd, sa, ackw, rst, up, nextMsg, hist>>

\* message_processor_worker: incoming_message_queue.get(timeout=1.0) returns the
\* oldest queued message, which the worker hands to _handle_incoming_message;
\* on queue.Empty it loops.
\* The loop tests stop_event before each get: an item taken while stop_event
\* is set is the last one.
message_processor_worker ==
    /\ up /\ shutdown.worker = "loop"
    /\ incoming_message_queue # <<>>
    /\ incoming_message_queue' = Tail(incoming_message_queue)
    /\ rx' = [rx EXCEPT !.out = Head(incoming_message_queue)]
    /\ shutdown' = IF shutdown.stop THEN [shutdown EXCEPT !.worker = "exited"]
                   ELSE shutdown
    /\ UNCHANGED <<deliveries, units, tx, asg, last, sw, lk, unit, win>>
    /\ UNCHANGED <<acks, timers, hnd, sa, ackw, rst, up, nextMsg, hist>>

\* while not stop_event.is_set(): false, "Incoming message processor worker
\* stopping."
WorkerExit ==
    /\ up /\ shutdown.stop /\ shutdown.worker = "loop"
    /\ shutdown' = [shutdown EXCEPT !.worker = "exited"]
    /\ UNCHANGED <<deliveries, units, tx, asg, last, sw, incoming_message_queue, rx, lk, unit, win>>
    /\ UNCHANGED <<acks, timers, hnd, sa, ackw, rst, up, nextMsg, hist>>

\* ------------------------------------------------- _timer_lock and _lock
\* What a thread does inside an interface method, step by step: it acquires
\* or releases _timer_lock ("acq_timer", "rel_timer") or _lock ("acq_iface",
\* "rel_iface"), touches _active_ack_timers and its Timers ("timers"), calls
\* the database module ("database"), uses the radio library ("radio"), or
\* sleeps ("sleep").
Threads == 1..NumThreads
NoThread == 0
\* Both locks free, every thread outside the interface.
NoLocks == [timer |-> NoThread, iface |-> NoThread,
            th |-> [t \in Threads |-> [op |-> "none", i |-> 0]]]

\* with self._lock: ... self.interface.sendData(...): one attempt
send_attempt_locks == <<"acq_iface", "radio", "rel_iface">>

\* send_message: a failed attempt, time.sleep(wait_time), a second attempt
send_message_locks == send_attempt_locks \o <<"sleep">> \o send_attempt_locks

\* connect: with self._lock: open the interface, sleep, getMyNodeInfo
connect_locks == <<"acq_iface", "radio", "sleep", "radio", "rel_iface">>

\* on_connection_change: with self._lock: getMyNodeInfo
on_connection_change_locks == <<"acq_iface", "radio", "rel_iface">>

\* _start_ack_timer: with self._timer_lock: cancel the old Timer, store and
\* start the new one
start_ack_timer_locks == <<"acq_timer", "timers", "timers", "rel_timer">>

\* _cancel_ack_timer: acquire, pop and cancel, release
cancel_ack_timer_locks == <<"acq_timer", "timers", "rel_timer">>

\* _handle_assignment_timeout, resend: pop under the lock, get_pending_ack,
\* update_pending_ack_retry, send_message, _start_ack_timer
handle_assignment_timeout_locks ==
    <<"acq_timer", "timers", "rel_timer", "database", "database">>
    \o send_attempt_locks \o start_ack_timer_locks

\* _handle_assignment_timeout, retries used up: pop under the lock,
\* get_pending_ack and the three cascade writes
handle_assignment_timeout_fail_locks ==
    <<"acq_timer", "timers", "rel_timer", "database", "database", "database", "database">>

\* _handle_incoming_ack: update_pending_ack_status, _cancel_ack_timer
handle_incoming_ack_locks == <<"database">> \o cancel_ack_timer_locks

\* send_assignment: get_unit, add_pending_ack, send_message, _start_ack_timer
send_assignment_locks ==
    <<"database", "database">> \o send_attempt_locks \o start_ack_timer_locks

\* restart_pending_ack_timers: get_all_pending_acks_for_restart, clear under
\* the lock, then _start_ack_timer for a row
restart_pending_ack_timers_locks ==
    <<"database", "acq_timer", "timers", "rel_timer">> \o start_ack_timer_locks

close_locks_mut_nested ==
    <<"acq_timer", "timers", "timers", "acq_iface", "radio", "rel_iface", "rel_timer">>

\* DispatchMeshtasticInterface.close: cancel and clear under _timer_lock,
\* then super().close(): interface.close() under _lock
close_locks ==
    <<"acq_timer", "timers", "timers", "rel_timer", "acq_iface", "radio", "rel_iface">>

LockOps ==
    [send_message |-> send_message_locks,
     connect |-> connect_locks,
     on_connection_change |-> on_connection_change_locks,
     start_ack_timer |-> start_ack_timer_locks,
     cancel_ack_timer |-> cancel_ack_timer_locks,
     handle_assignment_timeout |-> handle_assignment_timeout_locks,
     handle_assignment_timeout_fail |-> handle_assignment_timeout_fail_locks,
     handle_incoming_ack |-> handle_incoming_ack_locks,
     send_assignment |-> send_assignment_locks,
     restart_pending_ack_timers |-> restart_pending_ack_timers_locks,
     close |-> close_locks]

\* The step thread t is about to take ("none" outside the interface).
NextLockStep(t) ==
    IF lk.th[t].op = "none" THEN "none" ELSE LockOps[lk.th[t].op][lk.th[t].i]

\* threading.Lock is not re-entrant: acquire waits while anyone holds it.
CanStep(t) ==
    /\ NextLockStep(t) # "none"
    /\ NextLockStep(t) = "acq_timer" => lk.timer = NoThread
    /\ NextLockStep(t) = "acq_iface" => lk.iface = NoThread

\* Thread t enters an interface method.
LockBegin(t, op) ==
    /\ lk.th[t].op = "none"
    /\ lk' = [lk EXCEPT !.th[t] = [op |-> op, i |-> 1]]
    /\ UNCHANGED <<deliveries, units, tx, asg, last, sw, incoming_message_queue, rx,
                   shutdown, unit, win>>
    /\ UNCHANGED <<acks, timers, hnd, sa, ackw, rst, up, nextMsg, hist>>

\* Thread t takes its next step; after the last one it has left the method.
LockStep(t) ==
    /\ CanStep(t)
    /\ LET step == NextLockStep(t)
           done == lk.th[t].i = Len(LockOps[lk.th[t].op])
       IN lk' = [lk EXCEPT
                   !.timer = CASE step = "acq_timer" -> t
                               [] step = "rel_timer" -> NoThread
                               [] OTHER -> @,
                   !.iface = CASE step = "acq_iface" -> t
                               [] step = "rel_iface" -> NoThread
                               [] OTHER -> @,
                   !.th[t] = IF done THEN [op |-> "none", i |-> 0]
                             ELSE [@ EXCEPT !.i = @ + 1]]
    /\ UNCHANGED <<deliveries, units, tx, asg, last, sw, incoming_message_queue, rx,
                   shutdown, unit, win>>
    /\ UNCHANGED <<acks, timers, hnd, sa, ackw, rst, up, nextMsg, hist>>

\* ------------------------------------------------------------ ack windows
\* No assignment sent yet. age is now - sent_time in seconds, left the seconds
\* until the armed Timer fires (-1: none armed), window the interval it was
\* armed with, elapsed the elapsed_seconds the restart computed.
NoWin ==
    [status |-> "none", retry_count |-> 0, age |-> 0, left |-> -1,
     window |-> 0, armed_by |-> "none", elapsed |-> 0]

\* send_assignment: _start_ack_timer(msg_id, config.ASSIGNMENT_ACK_TIMEOUT_SECONDS)
initial_window == ASSIGNMENT_ACK_TIMEOUT_SECONDS

resend_window_mut_same(current_retry_count) ==
    ASSIGNMENT_ACK_TIMEOUT_SECONDS * (current_retry_count + 1)

\* _handle_assignment_timeout: _start_ack_timer(msg_id,
\*     config.ASSIGNMENT_ACK_TIMEOUT_SECONDS * (current_retry_count + 2))
resend_window(current_retry_count) ==
    ASSIGNMENT_ACK_TIMEOUT_SECONDS * (current_retry_count + 2)

\* send_assignment with a successful first transmission: the row is inserted
\* with sent_time = now and retry_count 0, the Timer is armed.
WinSend ==
    /\ win.status = "none"
    /\ win' = [win EXCEPT !.status = "pending", !.retry_count = 0, !.age = 0,
                          !.left = initial_window,
                          !.window = initial_window, !.armed_by = "live"]
    /\ UNCHANGED <<deliveries, units, tx, asg, last, sw, incoming_message_queue, rx,
                   shutdown, lk, unit>>
    /\ UNCHANGED <<acks, timers, hnd, sa, ackw, rst, up, nextMsg, hist>>

\* One second passes. An armed Timer fires when its interval is over, so the
\* clock does not go on while an armed Timer has nothing left.
WinTick ==
    /\ win.status = "pending" /\ win.age < MaxClock
    /\ win.left # 0
    /\ win' = [win EXCEPT !.age = @ + 1, !.left = IF @ > 0 THEN @ - 1 ELSE @]
    /\ UNCHANGED <<deliveries, units, tx, asg, last, sw, incoming_message_queue, rx,
                   shutdown, lk, unit>>
    /\ UNCHANGED <<acks, timers, hnd, sa, ackw, rst, up, nextMsg, hist>>

\* _handle_assignment_timeout when the Timer fires (or at once, started by the
\* restart for an overdue row), with successful store calls and resend: below
\* MAX_ASSIGNMENT_RETRIES the row's retry_count grows by one and the Timer is
\* armed for the resend window, else the row is failed. update_pending_ack_retry
\* may or may not set sent_time to the time of the resend: both are followed.
WinTimeout(refresh) ==
    /\ win.status = "pending" /\ win.left = 0
    /\ LET current_retry_count == win.retry_count IN
       IF current_retry_count < MAX_ASSIGNMENT_RETRIES
       THEN win' = [win EXCEPT !.retry_count = current_retry_count + 1,
                               !.age = IF refresh THEN 0 ELSE @,
                               !.left = resend_window(current_retry_count),
                               !.window = resend_window(current_retry_count),
                               !.armed_by = "live", !.elapsed = 0]
       ELSE win' = [win EXCEPT !.status = "failed", !.left = -1, !.window = 0,
                               !.armed_by = "none", !.elapsed = 0]
    /\ UNCHANGED <<deliveries, units, tx, asg, last, sw, incoming_message_queue, rx,
                   shutdown, lk, unit>>
    /\ UNCHANGED <<acks, timers, hnd, sa, ackw, rst, up, nextMsg, hist>>

\* The dispatch process ends with the row pending: its Timer is gone.
WinCrash ==
    /\ win.status = "pending" /\ win.armed_by \in {"live", "restart"}
    /\ win' = [win EXCEPT !.left = -1, !.window = 0, !.armed_by = "none",
                          !.elapsed = 0]
    /\ UNCHANGED <<deliveries, units, tx, asg, last, sw, incoming_message_queue, rx,
                   shutdown, lk, unit>>
    /\ UNCHANGED <<acks, timers, hnd, sa, ackw, rst, up, nextMsg, hist>>

\* restart_pending_ack_timers for the row, in the next process: elapsed_seconds
\* = now_dt - sent_dt; the Timer is armed for remaining_timeout when that is
\* above the guard, else a _handle_assignment_timeout thread is started at once.
WinRestart ==
    /\ win.status = "pending" /\ win.armed_by = "none"
    /\ LET elapsed_seconds == win.age IN
       IF RestartArms(win.retry_count, elapsed_seconds)
       THEN win' = [win EXCEPT
                      !.left = remaining_timeout(win.retry_count, elapsed_seconds),
                      !.window = remaining_timeout(win.retry_count, elapsed_seconds),
                      !.armed_by = "restart", !.elapsed = elapsed_seconds]
       ELSE win' = [win EXCEPT !.left = 0, !.window = 0,
                               !.armed_by = "overdue", !.elapsed = elapsed_seconds]
    /\ UNCHANGED <<deliveries, units, tx, asg, last, sw, incoming_message_queue, rx,
                   shutdown, lk, unit>>
    /\ UNCHANGED <<acks, timers, hnd, sa, ackw, rst, up, nextMsg, hist>>

\* ------------------------------------------------------ delivery_unit.py
\* No command is between its ack and its callback.
NoCmd == [type |-> "none"]

\* The unit process after its globals are set and main has created the
\* interface: unit_status "offline", no assignment, no GPS failure counted,
\* not connected, no location yet; nothing received, acked or called back.
NoUnit ==
    [unit_status |-> "offline", delivery_id |-> NoId, consecutive_gps_failures |-> 0,
     connected |-> FALSE, last_location |-> NULL, rx |-> NoCmd, received |-> 0,
     acked |-> [m \in MsgIds |-> 0], called |-> [m \in MsgIds |-> 0]]

\* Commands a unit can receive: an assignment (complete when it has
\* delivery_id and latitude) or a task_complete, with or without msg_id, or a
\* message of another type.
UnitCommands ==
    [type : {"assign"}, msg_id : MsgIds \cup {NoId},
     delivery_id : DeliveryIds \cup {NoId}, lat : {NULL, "lat"}]
    \cup [type : {"task_complete", "bogus"}, msg_id : MsgIds \cup {NoId},
          delivery_id : DeliveryIds, lat : {NULL}]

\* set_unit_status(new_status): the local status after the call (an invalid
\* status is refused); the report over the radio does not change it.
set_unit_status(U, new_status) ==
    IF new_status \notin VALID_UNIT_STATUSES THEN U
    ELSE [U EXCEPT !.unit_status = new_status]

\* handle_incoming_assignment(delivery_id, ...): the assignment is overwritten;
\* an idle unit becomes assigned.
handle_incoming_assignment(U, delivery_id) ==
    LET U1 == [U EXCEPT !.delivery_id = delivery_id] IN
    IF U1.unit_status = "idle" THEN set_unit_status(U1, "assigned") ELSE U1

\* handle_task_complete(completed_delivery_id): a unit that has arrived for
\* this delivery starts returning; otherwise the command is ignored.
handle_task_complete(U, completed_delivery_id) ==
    IF U.unit_status = "arrived_dest" /\ U.delivery_id = completed_delivery_id
    THEN set_unit_status(U, "returning")
    ELSE U

\* UnitMeshtasticInterface._handle_parsed_message, up to the callback: a
\* complete assignment and any task_complete are acked with send_ack(msg_id)
\* when they carry a msg_id, and their callback is due next.
handle_parsed_message(cmd) ==
    /\ unit.rx = NoCmd /\ unit.received < MaxCommands
    /\ LET handled == \/ cmd.type = "task_complete"
                      \/ /\ cmd.type = "assign"
                         /\ cmd.delivery_id # NoId /\ cmd.lat # NULL
           ack == handled /\ cmd.msg_id # NoId
       IN unit' = [unit EXCEPT
                     !.received = @ + 1,
                     !.acked = IF ack THEN [@ EXCEPT ![cmd.msg_id] = @ + 1] ELSE @,
                     !.rx = IF handled THEN cmd ELSE NoCmd]
    /\ UNCHANGED <<deliveries, units, tx, asg, last, sw, incoming_message_queue, rx,
                   shutdown, lk, win>>
    /\ UNCHANGED <<acks, timers, hnd, sa, ackw, rst, up, nextMsg, hist>>

\* ... if self.assignment_callback: self.assignment_callback(...) /
\*     if self.task_complete_callback: self.task_complete_callback(...)
UnitCallback ==
    /\ unit.rx # NoCmd
    /\ LET cmd == unit.rx
           U1 == IF cmd.type = "assign"
                 THEN handle_incoming_assignment(unit, cmd.delivery_id)
                 ELSE handle_task_complete(unit, cmd.delivery_id)
       IN unit' = [U1 EXCEPT
                     !.rx = NoCmd,
                     !.called = IF cmd.msg_id # NoId
                                THEN [@ EXCEPT ![cmd.msg_id] = @ + 1] ELSE @]
    /\ UNCHANGED <<deliveries, units, tx, asg, last, sw, incoming_message_queue, rx,
                   shutdown, lk, win>>
    /\ UNCHANGED <<acks, timers, hnd, sa, ackw, rst, up, nextMsg, hist>>

gps_iteration_mut_enroute(U, fix, near) ==
    IF fix
    THEN LET U1 == [U EXCEPT !.consecutive_gps_failures = 0, !.last_location = "p"] IN
         IF U1.delivery_id # NoId THEN set_unit_status(U1, "en_route") ELSE U1
    ELSE LET U1 == [U EXCEPT !.consecutive_gps_failures = @ + 1] IN
         IF /\ U1.consecutive_gps_failures >= UNIT_MAX_GPS_FAILURES
            /\ U1.unit_status # "error"
         THEN set_unit_status(U1, "error")
         ELSE U1

\* One pass of gps_update_loop: `fix` says whether get_gps_location returned a
\* position, `near` whether that position is within ARRIVAL_PROXIMITY_METERS
\* of the target (the destination when en route, the base when returning).
gps_iteration(U, fix, near) ==
    IF fix
    THEN LET U1 == [U EXCEPT !.consecutive_gps_failures = 0, !.last_location = "p"] IN
         IF U1.delivery_id # NoId
         THEN CASE U1.unit_status = "assigned" -> set_unit_status(U1, "en_route")
                [] U1.unit_status = "en_route" /\ near ->
                       set_unit_status(U1, "arrived_dest")
                [] U1.unit_status = "returning" /\ near ->
                       [set_unit_status(U1, "idle") EXCEPT !.delivery_id = NoId]
                [] OTHER -> U1
         ELSE IF U1.unit_status \notin {"idle", "returning", "error", "offline"}
              THEN set_unit_status(U1, "idle")
              ELSE U1
    ELSE LET U1 == [U EXCEPT !.consecutive_gps_failures = @ + 1] IN
         IF /\ U1.consecutive_gps_failures >= UNIT_MAX_GPS_FAILURES
            /\ U1.unit_status # "error"
         THEN set_unit_status(U1, "error")
         ELSE U1

gps_update_loop(fix, near) ==
    /\ fix \/ unit.consecutive_gps_failures < MaxGpsFailures
    /\ unit' = gps_iteration(unit, fix, near)
    /\ UNCHANGED <<deliveries, units, tx, asg, last, sw, incoming_message_queue, rx,
                   shutdown, lk, win>>
    /\ UNCHANGED <<acks, timers, hnd, sa, ackw, rst, up, nextMsg, hist>>

\* meshtastic_connection_manager: not connected, connect() succeeds; the
\* current status is sent again with set_unit_status(unit_status,
\* force_send=True), which leaves it as it is.
meshtastic_connection_manager ==
    /\ ~unit.connected
    /\ unit' = [set_unit_status(unit, unit.unit_status) EXCEPT !.connected = TRUE]
    /\ UNCHANGED <<deliveries, units, tx, asg, last, sw, incoming_message_queue, rx,
                   shutdown, lk, win>>
    /\ UNCHANGED <<acks, timers, hnd, sa, ackw, rst, up, nextMsg, hist>>

\* on_connection_change, "meshtastic.connection.lost"
UnitConnectionLost ==
    /\ unit.connected
    /\ unit' = [unit EXCEPT !.connected = FALSE]
    /\ UNCHANGED <<deliveries, units, tx, asg, last, sw, incoming_message_queue, rx,
                   shutdown, lk, win>>
    /\ UNCHANGED <<acks, timers, hnd, sa, ackw, rst, up, nextMsg, hist>>

\* ------------------------------------------------------------- shutdown
\* main, finally: serve() has returned with no request in progress;
\* stop_event.set()
StopSet ==
    /\ up /\ shutdown.main = "serve"
    /\ sa.pc = "idle" /\ \A c \in Callers : asg[c] = IdleCall
    /\ shutdown' = [shutdown EXCEPT !.stop = TRUE, !.main = "join_mesh"]
    /\ UNCHANGED <<deliveries, units, tx, asg, last, sw, incoming_message_queue, rx, lk, unit, win>>
    /\ UNCHANGED <<acks, timers, hnd, sa, ackw, rst, up, nextMsg, hist>>

\* run_meshtastic_service leaves its loop and calls mesh_interface.close():
\* the receive handler is unsubscribed, every Timer the map holds is cancelled,
\* the map is cleared and the interface is closed.
Close ==
    /\ up /\ shutdown.stop /\ ~shutdown.closed
    /\ timers' = [m \in MsgIds |-> [timers[m] EXCEPT !.mapped = FALSE]]
    /\ shutdown' = [shutdown EXCEPT !.closed = TRUE]
    /\ UNCHANGED <<deliveries, units, tx, asg, last, sw, incoming_message_queue, rx, lk, unit, win>>
    /\ UNCHANGED <<acks, hnd, sa, ackw, rst, up, nextMsg, hist>>

\* meshtastic_thread.join(timeout=5): the thread has ended or the 5 s are over.
MainJoinMesh ==
    /\ up /\ shutdown.main = "join_mesh"
    /\ shutdown' = [shutdown EXCEPT !.main = "join_queue"]
    /\ UNCHANGED <<deliveries, units, tx, asg, last, sw, incoming_message_queue, rx, lk, unit, win>>
    /\ UNCHANGED <<acks, timers, hnd, sa, ackw, rst, up, nextMsg, hist>>

\* incoming_message_queue.join(): returns when every item put on the queue has
\* been taken and marked task_done; it has no timeout.
MainJoinQueue ==
    /\ up /\ shutdown.main = "join_queue"
    /\ incoming_message_queue = <<>>
    /\ shutdown' = [shutdown EXCEPT !.main = "join_threads"]
    /\ UNCHANGED <<deliveries, units, tx, asg, last, sw, incoming_message_queue, rx, lk, unit, win>>
    /\ UNCHANGED <<acks, timers, hnd, sa, ackw, rst, up, nextMsg, hist>>

\* msg_processor_thread.join(timeout=5); offline_checker_thread.join(timeout=5);
\* "Shutdown Complete": main returns and the process, with its daemon threads
\* and Timers, ends.
MainComplete ==
    /\ up /\ shutdown.main = "join_threads"
    /\ shutdown' = [shutdown EXCEPT !.main = "complete"]
    /\ up' = FALSE
    /\ timers' = [m \in MsgIds |-> NoTimers]
    /\ hnd' = [m \in MsgIds |-> EmptyBag]
    /\ sa' = NoSa
    /\ ackw' = NoAckw
    /\ rst' = RstOff
    /\ sw' = NoSw
    /\ UNCHANGED <<deliveries, units, tx, asg, last, incoming_message_queue, rx, lk, unit, win>>
    /\ UNCHANGED <<acks, nextMsg, hist>>

vars == <<deliveries, units, tx, asg, last, acks, timers, hnd, sa, ackw, rst, up,
          nextMsg, hist, sw, incoming_message_queue, rx, shutdown, lk, unit, win>>

\* The liveness thread between sweeps, the inbound queue empty.
InitBg ==
    /\ sw = NoSw
    /\ incoming_message_queue = <<>>
    /\ rx = NoRx
    /\ shutdown = NoShutdown
    /\ lk = NoLocks
    /\ unit = NoUnit
    /\ win = NoWin

\* The messenger state of a process that has just started on an empty ack table.
InitMsg ==
    /\ acks = [m \in MsgIds |-> NoRow]
    /\ timers = [m \in MsgIds |-> NoTimers]
    /\ hnd = [m \in MsgIds |-> EmptyBag]
    /\ sa = NoSa
    /\ ackw = NoAckw
    /\ rst = [RstOff EXCEPT !.pc = "wait"]
    /\ up = TRUE
    /\ nextMsg = 1
    /\ hist = [m \in MsgIds |-> NoHist]
    /\ InitBg

\* ------------------------------------------------------------- SpecStore
\* The store's status API exercised on one delivery and one unit by one client:
\* every status, every target.
InitStore ==
    /\ deliveries = [d \in DeliveryIds |-> IF d = 1 THEN NewDelivery ELSE NoRow]
    /\ units = [u \in UnitIds |->
                  IF u = 1 THEN UnitRow("offline", NoId, "node", "fresh") ELSE NoRow]
    /\ tx = NoTx
    /\ asg = [c \in Callers |-> IdleCall]
    /\ last = NoCall
    /\ InitMsg

NextStore ==
    \/ \E d \in {1, MissingId}, t \in DeliveryTargets, r \in Reasons :
          CallUpdateDeliveryStatus(d, t, r)
    \/ \E u \in {1, MissingId}, t \in UnitTargets, del \in {NoId, 1} :
          CallUpdateUnitStatus(u, t, del)
    \/ Age(1)

SpecStore == InitStore /\ [][NextStore]_vars

\* ------------------------------------------------------------ SpecAssign
\* Two request threads assigning concurrently.  Delivery 1 and unit 1 start in
\* any status the status API can produce; the other rows start pending / idle.
InitAssign ==
    /\ \E sd \in VALID_DELIVERY_STATUSES :
          deliveries = [d \in DeliveryIds |->
                          IF d = 1
                          THEN [NewDelivery EXCEPT
                                  !.status = sd,
                                  !.failure_reason = IF sd = "failed" THEN "Unknown"
                                                     ELSE NULL]
                          ELSE NewDelivery]
    /\ \E su \in VALID_UNIT_STATUSES :
          units = [u \in UnitIds |->
                     IF u = 1 THEN UnitRow(su, NoId, "node", "fresh")
                     ELSE UnitRow("idle", NoId, "node", "fresh")]
    /\ tx = NoTx
    /\ asg = [c \in Callers |-> IdleCall]
    /\ last = NoCall
    /\ InitMsg

NextAssign ==
    \/ \E c \in Callers, d \in DeliveryIds \cup {MissingId},
          u \in UnitIds \cup {MissingId} : AsgStart(c, d, u)
    \/ \E c \in Callers : AsgStep(c)

SpecAssign == InitAssign /\ [][NextAssign]_vars

\* ---------------------------------------------------------- SpecMessenger
\* One lifetime of the dispatch process, started on an empty ack table, with
\* one delivery and one unit: assign requests, the reliable messenger with its
\* timers, timeout handlers and ack worker, the start-up recovery thread, and
\* the crash that ends it.
InitMessenger ==
    /\ deliveries = [d \in DeliveryIds |-> IF d = 1 THEN NewDelivery ELSE NoRow]
    /\ units = [u \in UnitIds |->
                  IF u = 1 THEN UnitRow("idle", NoId, "node", "fresh") ELSE NoRow]
    /\ tx = NoTx
    /\ asg = [c \in Callers |-> IdleCall]
    /\ last = NoCall
    /\ InitMsg

NextMessenger ==
    \/ \E d \in DeliveryIds, u \in UnitIds : RouteAssign(d, u)
    \/ SendAssignmentStep
    \/ \E m \in MsgIds : TimerFire(m)
    \/ \E m \in MsgIds : HandlerStep(m)
    \/ \E m \in MsgIds : AckArrive(m)
    \/ AckUpdate
    \/ AckCancel
    \/ RstLoad
    \/ RstClear
    \/ \E e \in ElapsedSamples : RstRow(e)
    \/ RstDone
    \/ RstExit
    \/ Crash

SpecMessenger == InitMessenger /\ [][NextMessenger]_vars

\* ----------------------------------------------------------- SpecRestart
\* A process starting on the ack table an earlier lifetime left: message m was
\* the assignment of delivery m to unit m; its row is absent, pending, acked or
\* failed; message 1 with any retry count, the others with their retries used
\* up.  Restart recovery, timers, timeout handlers
\* and the ack worker run.
PersistedRows(m) ==
    {NoRow} \cup [status : {"pending", "acked", "failed"},
                  retry_count : IF m = 1 THEN 0..MAX_ASSIGNMENT_RETRIES
                                ELSE {MAX_ASSIGNMENT_RETRIES},
                  delivery_id : {NoId}, unit_id : {NoId}]

InitRestart ==
    /\ \E A \in [MsgIds -> UNION {PersistedRows(m) : m \in MsgIds}] :
          /\ \A m \in MsgIds : A[m] \in PersistedRows(m)
          /\ acks = [m \in MsgIds |->
                       IF A[m] = NoRow THEN NoRow
                       ELSE [A[m] EXCEPT !.delivery_id = m, !.unit_id = m]]
          /\ deliveries = [d \in DeliveryIds |->
                CASE d \notin MsgIds \/ A[d] = NoRow -> NewDelivery
                  [] OTHER ->
                       IF A[d].status = "failed"
                       THEN [AssignDeliveryWrite(NewDelivery, d) EXCEPT
                                !.status = "failed", !.failure_reason = "ack timeout"]
                       ELSE AssignDeliveryWrite(NewDelivery, d)]
          /\ units = [u \in UnitIds |->
                CASE u \notin MsgIds \/ A[u] = NoRow ->
                       UnitRow("idle", NoId, "node", "fresh")
                  [] OTHER ->
                       IF A[u].status = "failed"
                       THEN UnitRow("error", NoId, "node", "fresh")
                       ELSE UnitRow("assigned", u, "node", "fresh")]
          /\ hist = [m \in MsgIds |->
                CASE A[m] = NoRow -> NoHist
                  [] OTHER -> [sent |-> A[m].retry_count + 1,
                               ackIn |-> A[m].status = "acked",
                               sendFailed |-> FALSE]]
    /\ tx = NoTx
    /\ asg = [c \in Callers |-> IdleCall]
    /\ last = NoCall
    /\ timers = [m \in MsgIds |-> NoTimers]
    /\ hnd = [m \in MsgIds |-> EmptyBag]
    /\ sa = NoSa
    /\ ackw = NoAckw
    /\ rst = [RstOff EXCEPT !.pc = "wait"]
    /\ up = TRUE
    /\ nextMsg = MaxMsgs + 1
    /\ InitBg

NextRestart ==
    \/ RstLoad
    \/ RstClear
    \/ \E e \in ElapsedSamples : RstRow(e)
    \/ RstDone
    \/ RstExit
    \/ \E m \in MsgIds : TimerFire(m)
    \/ \E m \in MsgIds : HandlerStep(m)
    \/ \E m \in MsgIds \cup {MissingId} : AckArrive(m)
    \/ AckUpdate
    \/ AckCancel

SpecRestart == InitRestart /\ [][NextRestart]_vars

\* ------------------------------------------------------------- SpecOps
\* The operator's requests, ack timeouts and the liveness sweep, in a process
\* whose restart recovery has run on an empty ack table.
InitOps ==
    /\ deliveries = [d \in DeliveryIds |-> NewDelivery]
    /\ units = [u \in UnitIds |->
                  IF u = 1 THEN UnitRow("idle", NoId, "node", "fresh") ELSE NoRow]
    /\ tx = NoTx
    /\ asg = [c \in Callers |-> IdleCall]
    /\ last = NoCall
    /\ acks = [m \in MsgIds |-> NoRow]
    /\ timers = [m \in MsgIds |-> NoTimers]
    /\ hnd = [m \in MsgIds |-> EmptyBag]
    /\ sa = NoSa
    /\ ackw = NoAckw
    /\ rst = RstOff
    /\ up = TRUE
    /\ nextMsg = 1
    /\ hist = [m \in MsgIds |-> NoHist]
    /\ InitBg

NextOps ==
    \/ \E d \in DeliveryIds, u \in UnitIds : RouteAssign(d, u)
    \/ SendAssignmentStep
    \/ \E m \in MsgIds : TimerFire(m)
    \/ \E m \in MsgIds : HandlerStep(m)
    \/ \E d \in DeliveryIds, s \in ManualStatuses : RouteManual(d, s, "operator")
    \/ Sweep
    \/ \E u \in UnitIds : Age(u)

SpecOps == InitOps /\ [][NextOps]_vars

\* ---------------------------------------------------------- SpecComplete
\* The operator closes, fails and re-opens deliveries that are under way:
\* delivery 1 is with unit 1 (assigned, en route or arrived, as the unit last
\* reported), delivery 2 is pending and unit 2 idle; the liveness sweep runs.
UnderWay ==
    {<<"assigned", "assigned">>, <<"en_route", "en_route">>,
     <<"arrived", "arrived_dest">>}

InitComplete ==
    /\ \E st \in UnderWay :
          /\ deliveries = [d \in DeliveryIds |->
                IF d = 1 THEN [AssignDeliveryWrite(NewDelivery, 1) EXCEPT
                                  !.status = st[1],
                                  !.enroute_time = IF st[1] = "assigned" THEN NULL ELSE "t",
                                  !.arrived_time = IF st[1] = "arrived" THEN "t" ELSE NULL]
                ELSE NewDelivery]
          /\ units = [u \in UnitIds |->
                IF u = 1 THEN UnitRow(st[2], 1, "node", "fresh")
                ELSE UnitRow("idle", NoId, "node", "fresh")]
    /\ tx = NoTx
    /\ asg = [c \in Callers |-> IdleCall]
    /\ last = NoCall
    /\ acks = [m \in MsgIds |-> NoRow]
    /\ timers = [m \in MsgIds |-> NoTimers]
    /\ hnd = [m \in MsgIds |-> EmptyBag]
    /\ sa = NoSa
    /\ ackw = NoAckw
    /\ rst = RstOff
    /\ up = TRUE
    /\ nextMsg = 1
    /\ hist = [m \in MsgIds |-> NoHist]
    /\ InitBg

NextComplete ==
    \/ \E d \in DeliveryIds, s \in ManualStatuses, r \in Reasons : RouteManual(d, s, r)
    \/ Sweep
    \/ \E u \in UnitIds : Age(u)

SpecComplete == InitComplete /\ [][NextComplete]_vars

\* ------------------------------------------------------------- SpecSweep
\* The liveness sweep on any fleet: every unit in any status, recently heard
\* of or silent; a unit that is assigned, en route, arrived or returning holds
\* the delivery with its own number, which is in any status.  Units age and
\* report between the sweeps.
HoldsDelivery == {"assigned", "en_route", "arrived_dest", "returning"}

InitSweep ==
    /\ \E su \in [UnitIds -> VALID_UNIT_STATUSES], lu \in [UnitIds -> {"fresh", "old"}] :
          units = [u \in UnitIds |->
                     UnitRow(su[u],
                             IF su[u] \in HoldsDelivery /\ u \in DeliveryIds THEN u ELSE NoId,
                             "node", lu[u])]
    /\ \E sd \in [DeliveryIds -> VALID_DELIVERY_STATUSES] :
          deliveries = [d \in DeliveryIds |->
                CASE sd[d] = "pending" -> NewDelivery
                  [] sd[d] = "failed"  ->
                        [AssignDeliveryWrite(NewDelivery, d) EXCEPT
                            !.status = "failed", !.failure_reason = "operator"]
                  [] OTHER ->
                        [AssignDeliveryWrite(NewDelivery, d) EXCEPT !.status = sd[d]]]
    /\ tx = NoTx
    /\ asg = [c \in Callers |-> IdleCall]
    /\ last = NoCall
    /\ acks = [m \in MsgIds |-> NoRow]
    /\ timers = [m \in MsgIds |-> NoTimers]
    /\ hnd = [m \in MsgIds |-> EmptyBag]
    /\ sa = NoSa
    /\ ackw = NoAckw
    /\ rst = RstOff
    /\ up = TRUE
    /\ nextMsg = 1
    /\ hist = [m \in MsgIds |-> NoHist]
    /\ InitBg

NextSweep ==
    \/ Sweep
    \/ \E u \in UnitIds : Age(u)
    \/ \E u \in UnitIds : Report(u)

SpecSweep == InitSweep /\ [][NextSweep]_vars

\* ---------------------------------------------------------- SpecLiveness
\* The liveness thread beside the message worker: every unit is idle or en
\* route with the delivery of its own number and was heard of recently; units
\* fall silent, report again, and the sweep runs store call by store call.
InitLiveness ==
    /\ \E busy \in SUBSET UnitIds :
          /\ units = [u \in UnitIds |->
                IF u \in busy /\ u \in DeliveryIds
                THEN UnitRow("en_route", u, "node", "fresh")
                ELSE UnitRow("idle", NoId, "node", "fresh")]
          /\ deliveries = [d \in DeliveryIds |->
                IF d \in busy
                THEN [AssignDeliveryWrite(NewDelivery, d) EXCEPT
                         !.status = "en_route", !.enroute_time = "t"]
                ELSE NewDelivery]
    /\ tx = NoTx
    /\ asg = [c \in Callers |-> IdleCall]
    /\ last = NoCall
    /\ acks = [m \in MsgIds |-> NoRow]
    /\ timers = [m \in MsgIds |-> NoTimers]
    /\ hnd = [m \in MsgIds |-> EmptyBag]
    /\ sa = NoSa
    /\ ackw = NoAckw
    /\ rst = RstOff
    /\ up = TRUE
    /\ nextMsg = 1
    /\ hist = [m \in MsgIds |-> NoHist]
    /\ InitBg

NextLiveness ==
    \/ SwScan
    \/ SwUnit
    \/ SwGet
    \/ SwFail
    \/ \E u \in UnitIds : Age(u)
    \/ \E u \in UnitIds : Report(u)

SpecLiveness == InitLiveness /\ [][NextLiveness]_vars

\* ------------------------------------------------------------ SpecReopen
\* The status API on a delivery with a history: delivery 1 is new, or was
\* assigned to unit 1 and is assigned, en route, arrived or completed, or was
\* failed at any of these points.
ReopenRows ==
    LET a == AssignDeliveryWrite(NewDelivery, 1)
        e == [a EXCEPT !.status = "en_route", !.enroute_time = "t"]
        r == [e EXCEPT !.status = "arrived", !.arrived_time = "t"]
        c == [r EXCEPT !.status = "completed", !.completion_time = "t"]
        F(x) == [x EXCEPT !.status = "failed", !.failure_reason = "operator"]
    IN  {NewDelivery, a, e, r, c, F(NewDelivery), F(a), F(e), F(r)}

InitReopen ==
    /\ \E row \in ReopenRows :
          deliveries = [d \in DeliveryIds |-> IF d = 1 THEN row ELSE NoRow]
    /\ units = [u \in UnitIds |->
                  IF u = 1 THEN UnitRow("offline", NoId, "node", "fresh") ELSE NoRow]
    /\ tx = NoTx
    /\ asg = [c \in Callers |-> IdleCall]
    /\ last = NoCall
    /\ InitMsg

SpecReopen == InitReopen /\ [][NextStore]_vars

\* ------------------------------------------------------------- SpecQueue
\* The radio's receive callback and the message worker on the inbound queue.
InitQueue ==
    /\ deliveries = [d \in DeliveryIds |-> IF d = 1 THEN NewDelivery ELSE NoRow]
    /\ units = [u \in UnitIds |->
                  IF u = 1 THEN UnitRow("idle", NoId, "node", "fresh") ELSE NoRow]
    /\ tx = NoTx
    /\ asg = [c \in Callers |-> IdleCall]
    /\ last = NoCall
    /\ InitMsg

NextQueue ==
    \/ \E kind \in PacketKinds : queued_on_receive(kind)
    \/ message_processor_worker

SpecQueue == InitQueue /\ [][NextQueue]_vars

\* ---------------------------------------------------------- SpecShutdown
\* A running server with one delivery and one unit, its start-up recovery
\* done, and up to MaxQueued messages waiting in the inbound queue: assign
\* requests, ack timers and timeout handlers, the message worker, and the
\* shutdown: stop_event, close, and main's joins.
InitShutdown ==
    /\ deliveries = [d \in DeliveryIds |-> IF d = 1 THEN NewDelivery ELSE NoRow]
    /\ units = [u \in UnitIds |->
                  IF u = 1 THEN UnitRow("idle", NoId, "node", "fresh") ELSE NoRow]
    /\ tx = NoTx
    /\ asg = [c \in Callers |-> IdleCall]
    /\ last = NoCall
    /\ acks = [m \in MsgIds |-> NoRow]
    /\ timers = [m \in MsgIds |-> NoTimers]
    /\ hnd = [m \in MsgIds |-> EmptyBag]
    /\ sa = NoSa
    /\ ackw = NoAckw
    /\ rst = RstOff
    /\ up = TRUE
    /\ nextMsg = 1
    /\ hist = [m \in MsgIds |-> NoHist]
    /\ sw = NoSw
    /\ shutdown = NoShutdown
    /\ lk = NoLocks
    /\ unit = NoUnit
    /\ win = NoWin
    /\ \E k \in 0..MaxQueued :
          /\ incoming_message_queue = [i \in 1..k |-> i]
          /\ rx = [NoRx EXCEPT !.n = k]

NextShutdown ==
    \/ \E d \in DeliveryIds, u \in UnitIds : RouteAssign(d, u)
    \/ SendAssignmentStep
    \/ \E m \in MsgIds : TimerFire(m)
    \/ \E m \in MsgIds : HandlerStep(m)
    \/ message_processor_worker
    \/ WorkerExit
    \/ StopSet
    \/ Close
    \/ MainJoinMesh
    \/ MainJoinQueue
    \/ MainComplete

SpecShutdown == InitShutdown /\ [][NextShutdown]_vars

\* Every thread that can take a step eventually takes one.
SpecShutdownFair == SpecShutdown /\ WF_vars(NextShutdown)

\* ------------------------------------------------------------ SpecNoNode
\* One pending delivery and two idle units: unit 1's row has no
\* meshtastic_node_id (the column is nullable), unit 2's has one.
InitNoNode ==
    /\ deliveries = [d \in DeliveryIds |-> IF d = 1 THEN NewDelivery ELSE NoRow]
    /\ units = [u \in UnitIds |->
                  UnitRow("idle", NoId, IF u = 1 THEN NULL ELSE "node", "fresh")]
    /\ tx = NoTx
    /\ asg = [c \in Callers |-> IdleCall]
    /\ last = NoCall
    /\ acks = [m \in MsgIds |-> NoRow]
    /\ timers = [m \in MsgIds |-> NoTimers]
    /\ hnd = [m \in MsgIds |-> EmptyBag]
    /\ sa = NoSa
    /\ ackw = NoAckw
    /\ rst = RstOff
    /\ up = TRUE
    /\ nextMsg = 1
    /\ hist = [m \in MsgIds |-> NoHist]
    /\ InitBg

NextNoNode ==
    \/ \E d \in DeliveryIds, u \in UnitIds : RouteAssign(d, u)
    \/ SendAssignmentStep
    \/ \E m \in MsgIds : TimerFire(m)
    \/ \E m \in MsgIds : HandlerStep(m)

SpecNoNode == InitNoNode /\ [][NextNoNode]_vars

\* ------------------------------------------------------------ SpecInbound
\* The message worker on any fleet: each unit is unknown or in any status,
\* recently heard of or silent, with or without a node id; a unit that is
\* assigned, en route, arrived or returning holds the delivery of its own
\* number.  Messages of every type arrive; units age.
InitInbound ==
    /\ \E su \in [UnitIds -> VALID_UNIT_STATUSES \cup {"unknown"}],
          lu \in [UnitIds -> {"fresh", "old"}],
          nu \in [UnitIds -> {NULL, "node"}] :
          units = [u \in UnitIds |->
                     IF su[u] = "unknown" THEN NoRow
                     ELSE UnitRow(su[u],
                                  IF su[u] \in HoldsDelivery /\ u \in DeliveryIds
                                  THEN u ELSE NoId,
                                  nu[u], lu[u])]
    /\ deliveries = [d \in DeliveryIds |->
          IF d \in UnitIds /\ units[d] # NoRow /\ units[d].assigned_delivery_id = d
          THEN AssignDeliveryWrite(NewDelivery, d)
          ELSE NewDelivery]
    /\ tx = NoTx
    /\ asg = [c \in Callers |-> IdleCall]
    /\ last = NoCall
    /\ acks = [m \in MsgIds |-> NoRow]
    /\ timers = [m \in MsgIds |-> NoTimers]
    /\ hnd = [m \in MsgIds |-> EmptyBag]
    /\ sa = NoSa
    /\ ackw = NoAckw
    /\ rst = RstOff
    /\ up = TRUE
    /\ nextMsg = 1
    /\ hist = [m \in MsgIds |-> NoHist]
    /\ InitBg

NextInbound ==
    \/ \E msg \in InboundMessages : handle_incoming_message(msg)
    \/ \E u \in UnitIds : Age(u)

SpecInbound == InitInbound /\ [][NextInbound]_vars

\* ------------------------------------------------------------- SpecFaults
\* Assignments, acks, ack timers and timeout handlers in a process whose
\* restart recovery is over, on a store whose writes can fail.
NextFaults ==
    \/ \E d \in DeliveryIds, u \in UnitIds : RouteAssign(d, u)
    \/ SendAssignmentStep
    \/ \E m \in MsgIds : TimerFire(m)
    \/ \E m \in MsgIds : HandlerStep(m)
    \/ \E m \in MsgIds : HRetryFault(m)
    \/ \E m \in MsgIds : AckArrive(m)
    \/ AckUpdate
    \/ AckCancel

SpecFaults == InitOps /\ [][NextFaults]_vars

\* The steps of the process's own threads and timers; requests and acks come
\* from outside.
RunFaults ==
    \/ SendAssignmentStep
    \/ \E m \in MsgIds : TimerFire(m)
    \/ \E m \in MsgIds : HandlerStep(m)
    \/ \E m \in MsgIds : HRetryFault(m)
    \/ AckUpdate
    \/ AckCancel

\* The process keeps running: a thread or timer that can take a step
\* eventually takes one.
SpecFaultsFair == SpecFaults /\ WF_vars(RunFaults)

\* -------------------------------------------------------------- SpecLocks
\* NumThreads threads (web requests, timer callbacks, the worker, the listener,
\* the recovery thread) run interface methods side by side.
InitLocks == InitOps

NextLocks ==
    \/ \E t \in Threads, op \in DOMAIN LockOps : LockBegin(t, op)
    \/ \E t \in Threads : LockStep(t)

SpecLocks == InitLocks /\ [][NextLocks]_vars

\* ------------------------------------------------------------ SpecWindows
\* One assignment on the clock: sent, timed out and resent by the running
\* process, with the process ending and restarting at any second.
InitWindows == InitOps

NextWindows ==
    \/ WinSend
    \/ WinTick
    \/ \E refresh \in BOOLEAN : WinTimeout(refresh)
    \/ WinCrash
    \/ WinRestart

SpecWindows == InitWindows /\ [][NextWindows]_vars

\* --------------------------------------------------------------- SpecUnit
\* The delivery unit process from its start: the connection manager, the GPS
\* loop with and without fixes, and commands arriving over the radio while it
\* is connected.
InitUnit == InitOps

NextUnit ==
    \/ \E cmd \in UnitCommands : unit.connected /\ handle_parsed_message(cmd)
    \/ UnitCallback
    \/ \E fix \in BOOLEAN, near \in BOOLEAN : gps_update_loop(fix, near)
    \/ meshtastic_connection_manager
    \/ UnitConnectionLost

SpecUnit == InitUnit /\ [][NextUnit]_vars

\* The unit is connected, GPS fixes keep coming and commands keep arriving,
\* command callbacks run.
SpecUnitFair ==
    /\ SpecUnit
    /\ WF_vars(UnitCallback)
    /\ WF_vars(meshtastic_connection_manager)
    /\ WF_vars(\E near \in BOOLEAN : gps_update_loop(TRUE, near))

\* ================================================================ claims

\* Every started request and every timeout handler has finished.
Quiescent == sa.pc = "idle" /\ \A m \in MsgIds : hnd[m] = EmptyBag

\* C1 (as claimed): for a message whose transmissions all succeeded and for
\* which no ack arrived, every retry slot is resent once, so there are never
\* more than MAX_ASSIGNMENT_RETRIES+1 transmissions; the row is failed exactly
\* when MAX_ASSIGNMENT_RETRIES+1 transmissions have been made; the handler's
\* cascade leaves the delivery failed and the unit error; and nothing is
\* transmitted once the row is failed.
C1_RetryThenFail ==
    [][\A m \in MsgIds :
          (~hist'[m].ackIn /\ ~hist'[m].sendFailed /\ acks[m] # NoRow)
             => /\ hist'[m].sent <= MAX_ASSIGNMENT_RETRIES + 1
                /\ (acks[m].status # "failed" /\ acks'[m].status = "failed")
                      => hist[m].sent = MAX_ASSIGNMENT_RETRIES + 1
                /\ acks[m].status = "failed" => hist'[m].sent = hist[m].sent
                /\ HFailDelivery(m)
                      => deliveries'[acks[m].delivery_id].status = "failed"
                /\ HFailUnit(m)
                      => units'[acks[m].unit_id].current_status = "error"]_vars

\* C2 (as claimed): once the row of m is acked it stays acked, m is not
\* transmitted again, and a timeout handler of m no longer turns the delivery
\* to failed or the unit to error.
C2_AckStopsTimeoutPath ==
    [][\A m \in MsgIds :
          (acks[m] # NoRow /\ acks[m].status = "acked")
             => /\ acks'[m].status = "acked"
                /\ hist'[m].sent = hist[m].sent
                /\ HFailDelivery(m)
                      => deliveries'[acks[m].delivery_id].status
                            = deliveries[acks[m].delivery_id].status
                /\ HFailUnit(m)
                      => units'[acks[m].unit_id].current_status
                            = units[acks[m].unit_id].current_status]_vars

\* C3: a message is transmitted only when its ack row exists; the row is
\* created pending with retry_count 0, before any transmission, and is never
\* deleted; and a crash while send_assignment is between its persist step and
\* the arming of the timer leaves the row among those restart recovery loads,
\* unless an ack or the timeout path has settled it already.
C3_PersistBeforeTransmit ==
    [][/\ \A m \in MsgIds :
            /\ hist'[m].sent > hist[m].sent => acks[m] # NoRow
            /\ (acks[m] = NoRow /\ acks'[m] # NoRow)
                  => /\ acks'[m].status = "pending"
                     /\ acks'[m].retry_count = 0
                     /\ hist[m].sent = 0
            /\ acks[m] # NoRow => acks'[m] # NoRow
       /\ (up /\ ~up' /\ sa.pc \in {"send", "arm"})
            => \/ sa.m \in get_all_pending_acks_for_restart(acks')
               \/ /\ acks'[sa.m] # NoRow
                  /\ \/ acks'[sa.m].status = "acked"
                     \/ acks'[sa.m].retry_count >= MAX_ASSIGNMENT_RETRIES
                     \/ hist[sa.m].sendFailed]_vars

\* C3 witness: the process crashed after send_assignment had persisted the row
\* and before it transmitted; the row is pending with retry_count 0.
C3_Witness ==
    /\ ~up
    /\ \E m \in MsgIds :
          /\ acks[m] # NoRow /\ acks[m].status = "pending" /\ acks[m].retry_count = 0
          /\ hist[m].sent = 0 /\ ~hist[m].sendFailed

\* C4: restart recovery loads exactly the pending rows; for each of them it
\* arms a timer for ASSIGNMENT_ACK_TIMEOUT_SECONDS*(retry_count+1) - elapsed
\* when that exceeds the 1-second guard and starts the timeout handler
\* otherwise; when it completes it has done one of the two for every row it
\* loaded and nothing for an absent, acked or failed row.
C4_RestartCoversPending ==
    [][/\ (rst.pc = "wait" /\ rst'.pc # "wait")
            => \A m \in MsgIds :
                  (rst'.snap[m] # NoRow)
                     <=> (acks[m] # NoRow /\ acks[m].status = "pending")
       /\ \A m \in MsgIds :
            (m \in rst.todo /\ m \notin rst'.todo)
               => LET remaining == ASSIGNMENT_ACK_TIMEOUT_SECONDS
                                      * (rst.snap[m].retry_count + 1)
                                   - rst'.did[m].elapsed
                  IN  IF remaining > RESTART_GUARD_SECONDS
                      THEN /\ rst'.did[m].kind = "timer"
                           /\ rst'.did[m].seconds = remaining
                           /\ timers'[m].mapped
                           /\ hnd' = hnd
                      ELSE /\ rst'.did[m].kind = "handler"
                           /\ BagCardinality(hnd'[m]) = BagCardinality(hnd[m]) + 1
                           /\ timers' = timers
       /\ (rst.pc = "loop" /\ rst'.pc = "done")
            => \A m \in MsgIds :
                  /\ rst.snap[m] # NoRow => rst.did[m].kind \in {"timer", "handler"}
                  /\ rst.snap[m] = NoRow => rst.did[m].kind = "none"
                  /\ (acks[m] # NoRow /\ acks[m].status = "pending")
                        => rst.did[m].kind \in {"timer", "handler"}]_vars

\* C4 witness: recovery has completed; it started the handler for a row whose
\* remaining window was exactly the guard, armed a timer for another row, or
\* left an acked or failed row alone.
C4_Witness ==
    /\ rst.pc = "done"
    /\ \E m1, m2 \in MsgIds :
          /\ rst.did[m1].kind = "handler"
          /\ ASSIGNMENT_ACK_TIMEOUT_SECONDS * (rst.snap[m1].retry_count + 1)
                - rst.did[m1].elapsed = RESTART_GUARD_SECONDS
          /\ acks[m2] # NoRow /\ acks[m2].status \in {"acked", "failed"}
          /\ rst.snap[m2] = NoRow /\ rst.did[m2].kind = "none"

\* C8 (as claimed): once every operation has finished, a delivery that is
\* assigned, en_route or arrived with assigned_unit_id = u is the delivery unit
\* u holds.
C8_DeliveryUnitConsistent ==
    Quiescent
       => \A d \in DeliveryIds :
             (/\ deliveries[d] # NoRow
              /\ deliveries[d].status \in {"assigned", "en_route", "arrived"}
              /\ deliveries[d].assigned_unit_id # NoId)
                => units[deliveries[d].assigned_unit_id].assigned_delivery_id = d

\* C5: a failing assign_delivery_to_unit call changes nothing: every step of a
\* call that is not its successful commit (a failed check, a rowcount of 0, an
\* error raised between the two UPDATEs, a busy timeout) leaves the committed
\* deliveries and units tables as they were.
C5_AssignAtomic ==
    [][\A c \in Callers :
          (asg'[c] # asg[c] /\ asg'[c].result # "ok")
             => (deliveries' = deliveries /\ units' = units)]_vars

\* C5 witness: an error was raised after the delivery UPDATE and the delivery is
\* still pending, the unit still idle.
C5_Witness ==
    \E c \in Callers :
        /\ asg[c].pc = "done" /\ asg[c].result = "fail"
        /\ asg[c].rd = "pending" /\ asg[c].ru = "idle"
        /\ asg[c].msg = "Database error during assignment"
        /\ deliveries[asg[c].d].status = "pending"
        /\ deliveries[asg[c].d].assigned_unit_id = NoId
        /\ units[asg[c].u].current_status = "idle"
        /\ units[asg[c].u].assigned_delivery_id = NoId

\* C6: with two concurrent assign calls, no delivery is held by two units, no
\* unit holds two deliveries, an assigned delivery's unit references it back,
\* and two conflicting calls never both succeed.
C6_ConcurrentAssignSafe ==
    /\ \A d \in DeliveryIds :
          (deliveries[d].status = "assigned" /\ deliveries[d].assigned_unit_id # NoId)
             => /\ units[deliveries[d].assigned_unit_id].assigned_delivery_id = d
                /\ units[deliveries[d].assigned_unit_id].current_status = "assigned"
    /\ \A u \in UnitIds :
          units[u].assigned_delivery_id # NoId
             => deliveries[units[u].assigned_delivery_id].assigned_unit_id = u
    /\ \A d1, d2 \in DeliveryIds :
          (d1 # d2 /\ deliveries[d1].assigned_unit_id # NoId)
             => deliveries[d1].assigned_unit_id # deliveries[d2].assigned_unit_id
    /\ \A u1, u2 \in UnitIds :
          (u1 # u2 /\ units[u1].assigned_delivery_id # NoId)
             => units[u1].assigned_delivery_id # units[u2].assigned_delivery_id
    /\ \A c1, c2 \in Callers :
          (c1 # c2 /\ asg[c1].result = "ok" /\ asg[c2].result = "ok")
             => (asg[c1].d # asg[c2].d /\ asg[c1].u # asg[c2].u)

\* C6 witness: one call won, the other lost the race on the same unit after it
\* had already written its delivery row, and that delivery is pending again.
C6_Witness ==
    \E c1, c2 \in Callers :
        /\ asg[c1].result = "ok" /\ asg[c2].result = "fail"
        /\ asg[c2].msg = "Failed to update unit (race condition?)"
        /\ asg[c1].u = asg[c2].u /\ asg[c1].d # asg[c2].d
        /\ deliveries[asg[c2].d].status = "pending"

\* C7: assign_delivery_to_unit succeeds only from delivery pending and unit idle
\* and then leaves both assigned and referencing each other; a delivery that is
\* missing or not pending, or a unit that is missing or not idle, makes it fail.
C7_AssignContract ==
    [][\A c \in Callers :
          LET d == asg[c].d
              u == asg[c].u
          IN  /\ (asg[c].result = "none" /\ asg'[c].result = "ok")
                    => /\ d \in DeliveryIds /\ u \in UnitIds
                       /\ deliveries[d] # NoRow /\ units[u] # NoRow
                       /\ deliveries[d].status = "pending"
                       /\ units[u].current_status = "idle"
                       /\ deliveries'[d].status = "assigned"
                       /\ deliveries'[d].assigned_unit_id = u
                       /\ units'[u].current_status = "assigned"
                       /\ units'[u].assigned_delivery_id = d
              /\ (asg[c].pc = "sel_d" /\ asg'[c].pc # "sel_d"
                  /\ ~(d \in DeliveryIds /\ deliveries[d] # NoRow
                       /\ deliveries[d].status = "pending"))
                    => asg'[c].result = "fail"
              /\ (asg[c].pc = "sel_u" /\ asg'[c].pc # "sel_u"
                  /\ ~(u \in UnitIds /\ units[u] # NoRow
                       /\ units[u].current_status = "idle"))
                    => asg'[c].result = "fail"]_vars

\* C7 witness: a call succeeded and both rows are assigned to each other.
C7_Witness ==
    \E c \in Callers :
        /\ asg[c].result = "ok"
        /\ deliveries[asg[c].d].status = "assigned"
        /\ deliveries[asg[c].d].assigned_unit_id = asg[c].u
        /\ units[asg[c].u].current_status = "assigned"
        /\ units[asg[c].u].assigned_delivery_id = asg[c].d

\* C9 (as claimed): every (current, target) pair of a transition table is
\* accepted and stored; every other pair with target # current is refused and
\* leaves the row unchanged.
C9_TransitionTableContract ==
    /\ (last.op = "update_delivery_status" /\ last.pre # NoRow)
          => /\ last.target \in DELIVERY_TRANSITIONS[last.pre.status]
                   => (last.ok /\ deliveries[last.id].status = last.target)
             /\ (last.target \notin DELIVERY_TRANSITIONS[last.pre.status]
                 /\ last.target # last.pre.status)
                   => (~last.ok /\ deliveries[last.id] = last.pre)
    /\ (last.op = "update_unit_status" /\ last.pre # NoRow)
          => /\ last.target \in UNIT_TRANSITIONS[last.pre.current_status]
                   => (last.ok /\ units[last.id].current_status = last.target)
             /\ (last.target \notin UNIT_TRANSITIONS[last.pre.current_status]
                 /\ last.target # last.pre.current_status)
                   => (~last.ok /\ units[last.id] = last.pre)

\* C10: a call whose target is the row's current status succeeds and changes
\* nothing of a delivery row, and of a unit row only last_update_time.
C10_SelfTransitionNoOp ==
    /\ (last.op = "update_delivery_status" /\ last.pre # NoRow
        /\ last.target = last.pre.status)
          => (last.ok /\ deliveries[last.id] = last.pre)
    /\ (last.op = "update_unit_status" /\ last.pre # NoRow
        /\ last.target = last.pre.current_status)
          => /\ last.ok
             /\ [units[last.id] EXCEPT !.last_update_time = last.pre.last_update_time]
                   = last.pre

\* C10 witness: a failed delivery holding an operator's reason was set to failed
\* again, with no reason given.
C10_Witness ==
    /\ last.op = "update_delivery_status" /\ last.pre # NoRow
    /\ last.target = "failed" /\ last.pre.status = "failed"
    /\ last.pre.failure_reason = "operator"
    /\ last.pre.assigned_time = "t"
    /\ last.ok

\* C11: processing an ack whose ack_id names a row that is missing, already
\* acked or already failed changes no ack row, no delivery, no unit and no
\* timer, and the worker is done with it; an ack on a pending row changes that
\* row's status to acked and nothing else in the three tables.  So of two acks
\* for one message only the first changes state, and a late ack after the row
\* failed leaves row, delivery and unit as they were.
C11_StaleAckNoOp ==
    [][(ackw.pc = "upd" /\ ackw'.pc # "upd" /\ up') =>
          LET m == ackw.m
              stale == \/ m \notin MsgIds
                       \/ acks[m] = NoRow
                       \/ acks[m].status \in {"acked", "failed"}
          IN  /\ deliveries' = deliveries
              /\ units' = units
              /\ IF stale
                 THEN acks' = acks /\ timers' = timers /\ ackw' = NoAckw
                 ELSE acks' = [acks EXCEPT ![m].status = "acked"]]_vars

\* A late ack was processed to the end after the row had failed: the row is
\* still failed, its delivery still failed and its unit still in error.
C11_Witness ==
    \E m \in MsgIds :
        /\ hist[m].ackIn /\ ackw = NoAckw
        /\ acks[m] # NoRow /\ acks[m].status = "failed"
        /\ deliveries[acks[m].delivery_id].status = "failed"
        /\ units[acks[m].unit_id].current_status = "error"

\* C12: when the initial transmit of send_assignment fails, send_assignment
\* takes the failure path: it marks the message's ack row failed, then sets the
\* delivery failed, then the unit error, and returns; none of these steps arms
\* a timer or transmits, and a message whose initial transmit failed never has
\* a timer or a timeout handler and is never transmitted afterwards.
C12_InitialSendFailure ==
    [][/\ \A m \in MsgIds :
             (hist[m].sendFailed /\ hist[m].sent = 0) =>
                 /\ timers[m] = NoTimers /\ hnd[m] = EmptyBag
                 /\ hist'[m].sent = 0
       /\ (up' /\ sa' # sa /\ sa.pc = "send" /\ hist'[sa.m].sent = hist[sa.m].sent) =>
             sa'.pc = "f_row"
       /\ (up' /\ sa' # sa /\ sa.pc = "f_row") =>
             /\ sa'.pc = "f_del" /\ acks'[sa.m].status = "failed"
             /\ timers' = timers /\ hist' = hist
       /\ (up' /\ sa' # sa /\ sa.pc = "f_del") =>
             /\ sa'.pc = "f_unit" /\ deliveries'[sa.d].status = "failed"
             /\ timers' = timers /\ hist' = hist
       /\ (up' /\ sa' # sa /\ sa.pc = "f_unit") =>
             /\ sa'.pc = "rv_del" /\ units'[sa.u].current_status = "error"
             /\ units'[sa.u].assigned_delivery_id = NoId
             /\ timers' = timers /\ hist' = hist]_vars

\* send_assignment has just returned False after a failed initial transmit.
C12_Witness ==
    /\ sa.pc = "rv_del"
    /\ sa.m \in MsgIds
    /\ hist[sa.m].sendFailed /\ hist[sa.m].sent = 0
    /\ acks[sa.m].status = "failed"
    /\ deliveries[sa.d].status = "failed"
    /\ units[sa.u].current_status = "error"
    /\ timers[sa.m] = NoTimers

\* C13 (as claimed): a task_complete command is tracked like an assignment:
\* the step that issues it (a delivery with a unit becomes completed and a
\* msg_id is generated) persists a pending ack row for that msg_id, and when
\* the command was transmitted its ack timer is armed, so that a missing ack
\* leads to a resend.
C13_TaskCompleteTracked ==
    [][\A d \in DeliveryIds :
          (/\ deliveries[d] # NoRow /\ deliveries[d].status # "completed"
           /\ deliveries'[d] # NoRow /\ deliveries'[d].status = "completed"
           /\ nextMsg' = nextMsg + 1) =>
              /\ acks'[nextMsg] # NoRow
              /\ acks'[nextMsg].status = "pending"
              /\ hist'[nextMsg].sent > 0 => timers'[nextMsg].mapped]_vars

\* The armed Timers of message m: the one the map holds and the ones it lost.
LiveTimers(m) == (IF timers[m].mapped THEN 1 ELSE 0) + timers[m].orphans

\* C14 (as claimed): in every reachable state each message id has at most one
\* live ack timer, and a timeout handler runs for a message only while no
\* other handler runs for it.
C14_OneLiveTimer ==
    \A m \in MsgIds :
        /\ LiveTimers(m) <= 1
        /\ BagCardinality(hnd[m]) <= 1

\* A unit the sweep's scan selects: silent for longer than the threshold and
\* not already offline.
Stale(u) ==
    /\ units[u] # NoRow
    /\ units[u].last_update_time = "old"
    /\ units[u].current_status # "offline"

\* C15: one run of check_and_update_offline_units with nothing in between
\* leaves every stale unit offline with no assigned delivery; the delivery it
\* had assigned, if not completed or failed, is failed with the reason naming
\* that unit; every other unit (recently heard of, or already offline) is
\* unchanged, and so is every delivery that no stale unit held.
C15_SweepEffect ==
    [][Sweep =>
          /\ \A u \in UnitIds :
                IF Stale(u)
                THEN /\ units'[u].current_status = "offline"
                     /\ units'[u].assigned_delivery_id = NoId
                     /\ LET d == units[u].assigned_delivery_id IN
                           (/\ d # NoId
                            /\ deliveries[d] # NoRow
                            /\ deliveries[d].status \notin {"completed", "failed"}) =>
                               /\ deliveries'[d].status = "failed"
                               /\ deliveries'[d].failure_reason = OfflineReason(u)
                ELSE units'[u] = units[u]
          /\ \A d \in DeliveryIds :
                (\A u \in UnitIds : Stale(u) => units[u].assigned_delivery_id # d) =>
                    deliveries'[d] = deliveries[d]]_vars

\* A sweep has run: a unit is offline with no delivery, the delivery is failed
\* with the reason naming the unit, while another unit was left as it was,
\* recently heard of and still holding its delivery.
C15_Witness ==
    \E u \in UnitIds, d \in DeliveryIds, v \in UnitIds :
        /\ units[u].current_status = "offline"
        /\ units[u].assigned_delivery_id = NoId
        /\ deliveries[d].status = "failed"
        /\ deliveries[d].failure_reason = OfflineReason(u)
        /\ v # u
        /\ units[v].current_status \in HoldsDelivery
        /\ units[v].last_update_time = "fresh"
        /\ units[v].assigned_delivery_id # NoId

\* C16 (as claimed): under every interleaving of the sweep with inbound
\* reports, a unit goes offline only in a step that finds its persisted
\* last_update_time older than the threshold, and the sweep fails a unit's
\* delivery only while that unit's last_update_time is older than the
\* threshold: a report between the sweep's scan and its write protects the unit.
C16_ReportProtects ==
    [][/\ \A u \in UnitIds :
             (/\ units[u] # NoRow /\ units[u].current_status # "offline"
              /\ units'[u].current_status = "offline") =>
                 units[u].last_update_time = "old"
       /\ (sw.pc = "fail" /\ deliveries' # deliveries) =>
             units[sw.unit].last_update_time = "old"]_vars

\* C17 (as claimed): in every reachable state of the store a unit's
\* assigned_delivery_id is set only while its status is assigned, en_route or
\* arrived_dest.
C17_UnitHoldsOnlyWhileActive ==
    \A u \in UnitIds :
        (units[u] # NoRow /\ units[u].assigned_delivery_id # NoId) =>
            units[u].current_status \in {"assigned", "en_route", "arrived_dest"}

\* C18 (as claimed): in every reachable state of the store a delivery's
\* assigned_unit_id is set only while its status is assigned, en_route or
\* arrived; a completed or failed delivery has none.
C18_DeliveryHoldsOnlyWhileActive ==
    \A d \in DeliveryIds :
        (deliveries[d] # NoRow /\ deliveries[d].assigned_unit_id # NoId) =>
            deliveries[d].status \in {"assigned", "en_route", "arrived"}

\* C19: re-opening a delivery (completed, failed or assigned to pending)
\* succeeds and leaves the row as add_delivery creates one: status pending,
\* assigned_unit_id, the assigned / en-route / arrived / completion timestamps
\* and failure_reason null, while address, coordinates and creation_time are
\* the ones the row had.
C19_ReopenLikeNew ==
    (/\ last.op = "update_delivery_status" /\ last.pre # NoRow
     /\ last.target = "pending"
     /\ last.pre.status \in {"completed", "failed", "assigned"}) =>
        LET row == deliveries[last.id] IN
        /\ last.ok
        /\ row.status = "pending"
        /\ row.assigned_unit_id = NoId
        /\ row.assigned_time = NULL /\ row.enroute_time = NULL
        /\ row.arrived_time = NULL /\ row.completion_time = NULL
        /\ row.failure_reason = NULL
        /\ row.address = last.pre.address
        /\ row.latitude = last.pre.latitude /\ row.longitude = last.pre.longitude
        /\ row.creation_time = last.pre.creation_time
        /\ row = [NewDelivery EXCEPT !.address = last.pre.address,
                                     !.latitude = last.pre.latitude,
                                     !.longitude = last.pre.longitude,
                                     !.creation_time = last.pre.creation_time]

\* A completed delivery that unit 1 had carried was re-opened.
C19_Witness ==
    /\ last.op = "update_delivery_status" /\ last.pre # NoRow
    /\ last.target = "pending" /\ last.ok
    /\ last.pre.status = "completed"
    /\ last.pre.assigned_unit_id = 1
    /\ last.pre.completion_time = "t"
    /\ deliveries[last.id].status = "pending"

\* C20: the inbound queue never holds more than maxsize messages; a message
\* that arrives while the queue is full is dropped and leaves the queued
\* messages and their order as they were, and the callback can always run,
\* full queue or not; a message that is enqueued goes to the tail, the worker
\* takes the head, and the queue is in arrival order behind the last message
\* taken, so messages leave in the order they were enqueued.
C20_BoundedFifoQueue ==
    /\ [](/\ Len(incoming_message_queue) <= maxsize
          /\ \A i \in 1..(Len(incoming_message_queue) - 1) :
                incoming_message_queue[i] < incoming_message_queue[i + 1]
          /\ incoming_message_queue # <<>> => rx.out < Head(incoming_message_queue)
          /\ (up /\ rx.n < MaxArrivals) => ENABLED queued_on_receive("message"))
    /\ [][/\ (rx'.n = rx.n + 1 /\ Len(incoming_message_queue) = maxsize) =>
                /\ incoming_message_queue' = incoming_message_queue
                /\ rx'.dropped = rx.dropped + 1
          /\ (rx'.n = rx.n + 1 /\ Len(incoming_message_queue) < maxsize) =>
                /\ incoming_message_queue' = Append(incoming_message_queue, rx'.n)
                /\ rx'.dropped = rx.dropped
          /\ rx'.out # rx.out =>
                /\ rx'.out = Head(incoming_message_queue)
                /\ incoming_message_queue' = Tail(incoming_message_queue)]_vars

\* The queue was full when a message arrived: that message is gone, the queue
\* is still full of the messages that were there, and the worker then took
\* the oldest one.
C20_Witness ==
    /\ rx.dropped > 0
    /\ rx.out = 1
    /\ Len(incoming_message_queue) = maxsize - 1
    /\ Head(incoming_message_queue) = 2
    /\ incoming_message_queue[maxsize - 1] = maxsize

\* C21 (as claimed): once stop_event is set and close has run, no ack timer is
\* armed and none is armed later, no message is transmitted, and no timeout
\* handler changes a delivery or a unit, also when a handler was running at
\* the moment of the stop.
C21_NothingAfterClose ==
    [][(up /\ shutdown.closed) =>
          /\ \A m \in MsgIds :
                /\ LiveTimers(m) = 0
                /\ timers'[m] = timers[m] \/ timers'[m] = NoTimers
                /\ hist'[m].sent = hist[m].sent
          /\ hnd' # hnd => (deliveries' = deliveries /\ units' = units)]_vars

\* C22 (as claimed): after stop_event is set the shutdown sequence of main
\* terminates: "Shutdown Complete" is reached whatever is in the inbound queue.
C22_ShutdownTerminates ==
    shutdown.stop ~> (shutdown.main = "complete")

\* C23: send_assignment for a unit that has no row or no meshtastic_node_id
\* returns False at once: no PendingAssignmentAck row is written, no message
\* id is used, nothing is transmitted, no timer is armed, and no delivery or
\* unit is changed by the call.
C23_NoNodeFailsClean ==
    [][(/\ sa.pc = "check" /\ sa' # sa
        /\ (units[sa.u] = NoRow \/ units[sa.u].meshtastic_node_id = NULL))
       => /\ sa' = [sa EXCEPT !.pc = "rv_del"]
          /\ acks' = acks /\ nextMsg' = nextMsg
          /\ hist' = hist
          /\ timers' = timers /\ hnd' = hnd
          /\ deliveries' = deliveries /\ units' = units]_vars

\* send_assignment has just returned False for the unit without a node id.
C23_Witness ==
    /\ sa.pc = "rv_del" /\ sa.m = NoId /\ sa.u \in UnitIds
    /\ units[sa.u].meshtastic_node_id = NULL
    /\ \A m \in MsgIds : acks[m] = NoRow /\ hist[m] = NoHist /\ timers[m] = NoTimers

\* C24 (as claimed): a message whose type tag is not a recognized one changes
\* no unit, delivery or PendingAssignmentAck row and no timer, also when it
\* carries a unit_id; a packet the receive callback filters out changes none
\* either.
C24_UnrecognizedNoChange ==
    [][/\ \A msg \in InboundMessages :
             (msg.type \notin RecognizedTypes /\ handle_incoming_message(msg))
             => UNCHANGED <<units, deliveries, acks, timers>>
       /\ \A kind \in PacketKinds \ {"message"} :
             queued_on_receive(kind) => UNCHANGED <<units, deliveries, acks, timers>>]_vars

\* The columns of a unit row a report is compared on.
ReportedColumns(row) ==
    IF row = NoRow THEN row
    ELSE <<row.current_status, row.assigned_delivery_id, row.meshtastic_node_id,
           row.last_latitude, row.last_longitude, row.last_location_time>>

\* C25: processing the same status or loc report a second time leaves every
\* unit row with the status, assignment reference, position and node id the
\* first processing left, and creates no row; processing a report changes no
\* delivery and no PendingAssignmentAck row.
C25_DuplicateReportHarmless ==
    /\ [](\A msg \in InboundMessages :
            msg.type \in RecognizedTypes =>
               LET once == IncomingResult(units, msg)
                   twice == IncomingResult(once, msg)
               IN \A u \in UnitIds : ReportedColumns(twice[u]) = ReportedColumns(once[u]))
    /\ [][\A msg \in InboundMessages :
            (msg.type \in RecognizedTypes /\ handle_incoming_message(msg))
            => UNCHANGED <<deliveries, acks>>]_vars

\* A unit that was in error has reported its position and is idle again, and
\* a unit has reported a status.
C25_Witness ==
    /\ \E u \in UnitIds :
          /\ units[u] # NoRow /\ units[u].last_latitude = "p1"
          /\ units[u].current_status = "idle" /\ units[u].last_update_time = "fresh"
    /\ \E u \in UnitIds :
          /\ units[u] # NoRow /\ units[u].last_latitude = NULL
          /\ units[u].current_status = "arrived_dest" /\ units[u].assigned_delivery_id = NoId

\* C26: a timeout handler that finds the row of its message id acked, failed
\* or missing drops its timer reference, reads the row and returns: it leaves
\* retry_count and the row, the delivery and the unit as they are, transmits
\* nothing and arms no timer.
C26_TimeoutOnSettledRowNoOp ==
    [][\A m \in MsgIds :
          ((acks[m] = NoRow \/ acks[m].status # "pending") /\ (HPop(m) \/ HRead(m)))
          => /\ UNCHANGED <<acks, hist, deliveries, units>>
             /\ LiveTimers(m)' = LiveTimers(m)
             /\ HRead(m) => BagCardinality(hnd'[m]) = BagCardinality(hnd[m]) - 1]_vars

\* A handler whose timer fired is about to read a row that is already acked.
C26_Witness ==
    \E m \in MsgIds :
        /\ acks[m] # NoRow /\ acks[m].status = "acked"
        /\ Handler("read", 0) \in Running(m)

\* C27 (as claimed): the retry_count of a PendingAssignmentAck row never
\* decreases, never exceeds MAX_ASSIGNMENT_RETRIES and grows by one with each
\* resend, so a message id is transmitted at most MAX_ASSIGNMENT_RETRIES + 1
\* times.
C27_RetryCountBounded ==
    /\ [](\A m \in MsgIds :
            acks[m] # NoRow =>
               /\ acks[m].retry_count <= MAX_ASSIGNMENT_RETRIES
               /\ hist[m].sent <= MAX_ASSIGNMENT_RETRIES + 1
               /\ hist[m].sent <= acks[m].retry_count + 1)
    /\ [][\A m \in MsgIds :
            acks[m] # NoRow =>
               /\ acks'[m] # NoRow
               /\ acks'[m].retry_count \in {acks[m].retry_count, acks[m].retry_count + 1}]_vars

\* C28 (as claimed): while the dispatcher runs and timers fire, every
\* PendingAssignmentAck row that is pending eventually becomes acked or failed.
C28_PendingEventuallySettled ==
    \A m \in MsgIds :
        (acks[m] # NoRow /\ acks[m].status = "pending")
        ~> (acks[m] # NoRow /\ acks[m].status \in {"acked", "failed"})

\* C29 (as claimed): the terminal cascade of message m touches only the
\* assignment m was sent for: it does not fail the delivery when the delivery
\* is by now assigned to another unit, and does not put the unit into error
\* when the unit by now holds another delivery.
C29_CascadeOnlyOwnAssignment ==
    [][\A m \in MsgIds :
          /\ (/\ HFailDelivery(m)
              /\ deliveries[acks[m].delivery_id].assigned_unit_id
                    \notin {acks[m].unit_id, NoId})
             => deliveries' = deliveries
          /\ (/\ HFailUnit(m)
              /\ units[acks[m].unit_id].assigned_delivery_id
                    \notin {acks[m].delivery_id, NoId})
             => units' = units]_vars

\* C30 (as claimed): every change of a stored unit's current_status, by
\* whichever operation, goes from a status s to a status in UNIT_TRANSITIONS[s].
C30_UnitStatusFollowsTable ==
    [][\A u \in UnitIds :
          (/\ units[u] # NoRow /\ units'[u] # NoRow
           /\ units'[u].current_status # units[u].current_status)
          => units'[u].current_status \in UNIT_TRANSITIONS[units[u].current_status]]_vars

\* C31: a thread that holds _timer_lock does no database call, no radio call,
\* no sleep and no acquisition of _lock, and a thread that holds _lock does not
\* acquire _timer_lock; so whenever some thread is inside an interface method,
\* some thread can take its next step.
C31_TimerLockOrder ==
    /\ \A t \in Threads :
          /\ lk.timer = t =>
                NextLockStep(t) \notin {"database", "radio", "sleep", "acq_iface", "acq_timer"}
          /\ lk.iface = t => NextLockStep(t) \notin {"acq_timer", "acq_iface"}
    /\ (\E t \in Threads : lk.th[t].op # "none") => \E t \in Threads : CanStep(t)

\* One thread is inside close and holds _lock for interface.close() while
\* another holds _timer_lock inside _start_ack_timer.
C31_Witness ==
    \E t, t2 \in Threads :
        /\ lk.th[t].op = "close" /\ lk.iface = t /\ NextLockStep(t) = "radio"
        /\ lk.th[t2].op = "send_assignment" /\ lk.timer = t2 /\ NextLockStep(t2) = "timers"

\* C32: for a pending row with retry count r, the Timer the running process
\* arms after its latest transmission is ASSIGNMENT_ACK_TIMEOUT_SECONDS * (r+1),
\* the base for the first send and strictly more after each resend, and that
\* is the expected_total of the restart; a Timer the restart arms runs for
\* what is left of it, so the seconds since sent_time plus the Timer's
\* interval come to exactly that window; a row the restart hands to the
\* handler at once has at most RESTART_GUARD_SECONDS of its window left.
C32_WindowsAgree ==
    LET expected_total == ASSIGNMENT_ACK_TIMEOUT_SECONDS * (win.retry_count + 1) IN
    /\ win.armed_by = "live" =>
          /\ win.window = expected_total
          /\ win.window = remaining_timeout(win.retry_count, 0)
          /\ win.window >= ASSIGNMENT_ACK_TIMEOUT_SECONDS
          /\ win.retry_count > 0 => win.window > ASSIGNMENT_ACK_TIMEOUT_SECONDS * win.retry_count
    /\ win.armed_by = "restart" =>
          /\ win.elapsed + win.window = expected_total
          /\ win.window > RESTART_GUARD_SECONDS
    /\ win.armed_by = "overdue" =>
          /\ win.window = 0
          /\ expected_total - win.elapsed <= RESTART_GUARD_SECONDS

\* A resent row (retry count 2) whose Timer the restart armed for the rest of
\* its window.
C32_Witness ==
    /\ win.status = "pending" /\ win.retry_count = 2
    /\ win.armed_by = "restart" /\ win.elapsed > 0

\* C32 as stated: whenever the restart finds a pending row whose window has not
\* ended, the seconds since sent_time plus the seconds it goes on to wait are
\* the window of the running process, never less.
C32_RecoveryWaitsWholeWindow ==
    LET expected_total == ASSIGNMENT_ACK_TIMEOUT_SECONDS * (win.retry_count + 1) IN
    (win.armed_by \in {"restart", "overdue"} /\ win.elapsed <= expected_total)
        => win.elapsed + win.window = expected_total

\* The valid statuses other than s that update_delivery_status stores for
\* delivery 1 when its status is s.
DeliveryAccepted(s) ==
    {t \in VALID_DELIVERY_STATUSES \ {s} :
        LET r == update_delivery_status([deliveries EXCEPT ![1].status = s], 1, t, NULL)
        IN  r.ok /\ r.rows[1].status = t}

\* The valid statuses other than s that update_unit_status stores for unit 1
\* when its status is s.
UnitAccepted(s) ==
    {t \in VALID_UNIT_STATUSES \ {s} :
        LET r == update_unit_status([units EXCEPT ![1].current_status = s], 1, t, NoId, "t")
        IN  r.ok /\ r.rows[1].current_status = t}

\* The statuses reached from those of S by accepted updates, S included.
RECURSIVE DeliveryReach(_)
DeliveryReach(S) ==
    LET N == S \cup UNION {DeliveryAccepted(s) : s \in S} IN
    IF N = S THEN S ELSE DeliveryReach(N)

RECURSIVE UnitReach(_)
UnitReach(S) ==
    LET N == S \cup UNION {UnitAccepted(s) : s \in S} IN
    IF N = S THEN S ELSE UnitReach(N)

\* C33: from the status a delivery has, accepted calls of update_delivery_status
\* lead to every valid delivery status, and from the status a unit has,
\* accepted calls of update_unit_status lead to every valid unit status;
\* offline is accepted directly from every other unit status, error from every
\* unit status but error, failed from every delivery status that is neither
\* completed nor failed.
C33_StatusesMutuallyReachable ==
    /\ DeliveryReach({deliveries[1].status}) = VALID_DELIVERY_STATUSES
    /\ UnitReach({units[1].current_status}) = VALID_UNIT_STATUSES
    /\ units[1].current_status # "offline" => "offline" \in UnitAccepted(units[1].current_status)
    /\ units[1].current_status # "error" => "error" \in UnitAccepted(units[1].current_status)
    /\ deliveries[1].status \notin {"completed", "failed"}
          => "failed" \in DeliveryAccepted(deliveries[1].status)

\* The store has taken a delivery to completed and a unit to returning, the
\* statuses farthest from where they start.
C33_Witness ==
    /\ deliveries[1].status = "completed"
    /\ units[1].current_status = "returning"

\* C34: every stored delivery has one of the statuses pending, assigned,
\* en_route, arrived, completed, failed and every stored unit one of offline,
\* idle, assigned, en_route, arrived_dest, returning, error; a call whose
\* target is a table entry outside these ('returning' for a delivery, 'failed'
\* for a unit) fails.
C34_StoredStatusesValid ==
    /\ \A d \in DeliveryIds : deliveries[d] # NoRow =>
          deliveries[d].status \in
             {"pending", "assigned", "en_route", "arrived", "completed", "failed"}
    /\ \A u \in UnitIds : units[u] # NoRow =>
          units[u].current_status \in
             {"offline", "idle", "assigned", "en_route", "arrived_dest", "returning", "error"}
    /\ (last.op = "update_delivery_status" /\ last.target = "returning") => ~last.ok
    /\ (last.op = "update_unit_status" /\ last.target = "failed") => ~last.ok

\* update_unit_status was called with 'failed' for a unit that is en_route,
\* whose table entry lists it.
C34_Witness ==
    /\ last.op = "update_unit_status" /\ last.target = "failed"
    /\ last.pre # NoRow /\ last.pre.current_status = "en_route"
    /\ "failed" \in UNIT_TRANSITIONS["en_route"]

\* C35: when assign_unit returns after send_assignment returned False (the
\* unit has no node id, the ack row could not be stored, or the first
\* transmission failed), the delivery is pending with no assigned unit and the
\* unit is idle with no assigned delivery.
C35_FailedSendReverts ==
    [][(sa.pc = "rv_unit" /\ sa' = NoSa)
       => /\ deliveries'[sa.d].status = "pending"
          /\ deliveries'[sa.d].assigned_unit_id = NoId
          /\ units'[sa.u].current_status = "idle"
          /\ units'[sa.u].assigned_delivery_id = NoId]_vars

\* assign_unit has returned after a failed first transmission: the message's
\* row is failed, the delivery is pending again and the unit idle.
C35_Witness ==
    /\ sa = NoSa
    /\ \E m \in MsgIds : acks[m] # NoRow /\ acks[m].status = "failed" /\ hist[m].sendFailed
                             /\ deliveries[acks[m].delivery_id].status = "pending"
                             /\ units[acks[m].unit_id].current_status = "idle"

\* C36 (as claimed): on the unit, every received assign or task_complete
\* command with a msg_id is answered with an ack for that msg_id, also when it
\* is a duplicate, and the ack is sent before the command's callback runs; a
\* command without msg_id, and a message of another type, is not acked.
C36_CommandsAcked ==
    [][/\ \A cmd \in UnitCommands :
             handle_parsed_message(cmd) =>
                IF cmd.type \in {"assign", "task_complete"} /\ cmd.msg_id # NoId
                THEN unit'.acked = [unit.acked EXCEPT ![cmd.msg_id] = @ + 1]
                ELSE unit'.acked = unit.acked
       /\ (UnitCallback /\ unit.rx.msg_id # NoId) =>
             unit.acked[unit.rx.msg_id] > unit.called[unit.rx.msg_id]]_vars

\* C37: a stored delivery has a failure_reason exactly when its status is
\* failed: the write of failed stores the given reason or 'Unknown', and the
\* write of pending, the only status accepted after failed, clears it.
C37_ReasonIffFailed ==
    \A d \in DeliveryIds : deliveries[d] # NoRow =>
        (deliveries[d].failure_reason # NULL <=> deliveries[d].status = "failed")

\* A delivery failed by a call that gave no reason.
C37_Witness ==
    /\ last.op = "update_delivery_status" /\ last.target = "failed" /\ last.ok
    /\ last.pre # NoRow /\ last.pre.status # "failed"
    /\ deliveries[1].status = "failed" /\ deliveries[1].failure_reason = "Unknown"

\* The local states the unit's handlers are written for: any status, with or
\* without an assignment, the failure count at 0 or one below the limit. A unit
\* on its way (en_route) has an assignment: current_assignment is set with the
\* status assigned and cleared only with the write of idle.
UnitLocalStates ==
    {U \in {[NoUnit EXCEPT !.unit_status = s, !.delivery_id = d,
                           !.consecutive_gps_failures = f] :
                s \in VALID_UNIT_STATUSES, d \in DeliveryIds \cup {NoId},
                f \in {0, UNIT_MAX_GPS_FAILURES - 1}} :
        ~(U.unit_status = "en_route" /\ U.delivery_id = NoId)}

\* The status after a handler is the status before it or one of its targets
\* in UNIT_TRANSITIONS.
FollowsUnitTable(U, V) ==
    V.unit_status = U.unit_status \/ V.unit_status \in UNIT_TRANSITIONS[U.unit_status]

C39_UnitBecomesIdle ==
    /\ <>(unit.unit_status = "idle")
    /\ (unit.unit_status = "error") ~> (unit.unit_status # "error")

====
